---- MODULE Spec2Model ----
(***************************************************************************)
(* A model of mxtl::SlabAllocator<> (system/ulib/mxtl/include/mxtl/        *)
(* slab_allocator.h): instanced pools in a debug build (LK_DEBUGLEVEL > 1, *)
(* so free_list_size_ exists and DEBUG_ASSERT is fatal), dispensing raw    *)
(* pointers, with mxtl::Mutex as the LockType.                             *)
(*                                                                         *)
(* Spec       the single-threaded program with one pool: every public      *)
(*            operation (the constructor, New, operator delete, the        *)
(*            destructor) is one atomic action.                            *)
(* SpecPools  the same with several pools of one configuration.            *)
(* SpecMT     one pool used by several threads: New and operator delete    *)
(*            are executed statement by statement, and the critical        *)
(*            sections of Allocate and ReturnToFreeList are entered        *)
(*            through alloc_lock_.                                         *)
(* SpecS6     SpecMT's statements, driven by threads that each make a      *)
(*            fixed number of acquire/release pairs.                       *)
(* SpecRef    Spec with RefPtr as the pointer type: reference counts.      *)
(* SpecMisuse Spec with a caller that deletes an object twice.             *)
(* SpecThrow  Spec with an ObjType whose constructor can throw.            *)
(* SpecFlavors an instanced and a static pool driven by one sequence of    *)
(*            operations.                                                  *)
(* SpecFair   SpecMT's statements on two pools with an ObjType whose       *)
(*            constructor may call New, under fair scheduling.             *)
(***************************************************************************)
EXTENDS Integers, Sequences, FiniteSets, Bags, TLC

\* SlabAllocationCount of the SATraits modelled: an object and a slab size that
\* make (SLAB_SIZE - SlabOverhead) / sizeof(Allocation) two.
AllocsPerSlab == 2
\* The slab limit of the usage example: AllocatorType allocator(1, true).
ExampleMaxSlabs == 1

\* Bounds of the model.
NumPools == 2          \* instanced pools of one SlabAllocator<SATraits> type
MaxSlabsArg == 2       \* Spec: the largest max_slabs handed to the constructor
NumThreads == 2        \* SpecMT: the threads
MaxSlabsArgMT == 1     \* SpecMT: the largest max_slabs handed to the constructor
PairsPerThread == 2    \* SpecS6: the acquire/release pairs of each thread
MaxRefs == 5           \* SpecRef: the most RefPtr instances that point at one object

Pools == 1..NumPools
Threads == 1..NumThreads
\* The slab-sized regions the host allocator can hand out: enough for every
\* pool to reach its limit and one more, so the host only fails when it
\* chooses to.
Regions == 1..(NumPools * (MaxSlabsArg + MaxSlabsArgMT) + 1)

\* A block of object memory: allocs_[idx] of the slab at region `slab`.
NULL == [slab |-> 0, idx |-> 0]
NoThread == 0

VARIABLES
    pools,     \* pools[p]: the members of the SlabAllocator at p, and its lifetime
    heap,      \* the regions aligned_alloc has handed out and free() has not got back
    objs,      \* the bag of constructed ObjType objects the callers hold
    panicked,  \* a DEBUG_ASSERT has failed: the program has stopped
    hist,      \* history per pool: the constructor's arguments and whether it got a block
    last,      \* history: the operation that completed last, and what it returned
    pc,        \* SpecMT: pc[t], the statement thread t is at
    frame,     \* SpecMT: frame[t], the locals of the call thread t is in
    snap,      \* SpecMT history: snap[t], the pool and heap as thread t locked them
    work,      \* SpecS6: how far each thread is in its pairs, and the addresses got
    ref_count_, \* SpecRef: the reference count of every object, as a bag
    ptrs,      \* SpecRef: the bag of RefPtr instances the callers hold, per object
    outer      \* SpecFair: outer[t], the frame of the New whose constructor runs

vars == <<pools, heap, objs, panicked, hist, last, pc, frame, snap, work,
          ref_count_, ptrs, outer>>

\* The variables of one specification, which the others leave alone.
aux == <<snap, work, ref_count_, ptrs, outer>>

----------------------------------------------------------------------------
\* Helpers.

Range(s) == {s[i] : i \in 1..Len(s)}

RECURSIVE SumAllocCount(_)
\* The sum of alloc_count() over a slab list (~SlabAllocator's allocated_count).
SumAllocCount(slabs) ==
    IF slabs = <<>> THEN 0
    ELSE Head(slabs).alloc_count_ + SumAllocCount(Tail(slabs))

SetMin(S) == CHOOSE x \in S : \A y \in S : x <= y

\* SinglyLinkedList<>::push_front / pop_front / front / is_empty.
push_front(list, x) == <<x>> \o list
pop_front(list) == Tail(list)
front(list) == Head(list)
is_empty(list) == list = <<>>

----------------------------------------------------------------------------
\* The code of internal::SlabAllocator<SATraits>, as functions of the members.

\* A pool whose constructor has not run yet.
Unborn ==
    [lifetime |-> "unborn", max_slabs_ |-> 0, slab_list_ |-> <<>>,
     slab_count_ |-> 0, free_list_ |-> <<>>, free_list_size_ |-> 0,
     alloc_lock_ |-> NoThread]

\* Faulty variant of the member initialisers: a limit of zero is taken as one.
Constructed_AtLeastOne(max_slabs) ==
    [Unborn EXCEPT !.lifetime = "alive",
                   !.max_slabs_ = IF max_slabs = 0 THEN 1 ELSE max_slabs]

\* The members right after the member initialisers of the constructor.
Constructed(max_slabs) == [Unborn EXCEPT !.lifetime = "alive", !.max_slabs_ = max_slabs]

\* ::aligned_alloc(alignof(Slab), SLAB_SIZE): a region nobody holds, or 0
\* (nullptr) when the host fails (ok = FALSE) or has nothing left.
aligned_alloc(h, ok) ==
    IF ok /\ Regions \ h # {} THEN SetMin(Regions \ h) ELSE 0

\* Faulty variant of Slab::Allocate: `>` for `>=`, one block too many per slab.
SlabAllocate_OffByOne(slab) ==
    IF slab.alloc_count_ > AllocsPerSlab
    THEN [mem |-> NULL, slab |-> slab]
    ELSE [mem |-> [slab |-> slab.id, idx |-> slab.alloc_count_],
          slab |-> [slab EXCEPT !.alloc_count_ = @ + 1]]

\* Faulty variant of Slab::Allocate: alloc_count_++ evaluated before the test.
SlabAllocate_BumpWhenFull(slab) ==
    [mem |-> IF slab.alloc_count_ >= AllocsPerSlab THEN NULL
             ELSE [slab |-> slab.id, idx |-> slab.alloc_count_],
     slab |-> [slab EXCEPT !.alloc_count_ = @ + 1]]

\* Faulty variant of Slab::Allocate: alloc_count_ for alloc_count_++.
SlabAllocate_NoBump(slab) ==
    IF slab.alloc_count_ >= AllocsPerSlab
    THEN [mem |-> NULL, slab |-> slab]
    ELSE [mem |-> [slab |-> slab.id, idx |-> slab.alloc_count_], slab |-> slab]

\* Faulty variant of Slab::Allocate: allocs_[++alloc_count_].
SlabAllocate_PreIncrement(slab) ==
    IF slab.alloc_count_ >= AllocsPerSlab
    THEN [mem |-> NULL, slab |-> slab]
    ELSE [mem |-> [slab |-> slab.id, idx |-> slab.alloc_count_ + 1],
          slab |-> [slab EXCEPT !.alloc_count_ = @ + 1]]

\* Slab::Allocate: the bump allocation inside one slab.
SlabAllocate(slab) ==
    IF slab.alloc_count_ >= AllocsPerSlab
    THEN [mem |-> NULL, slab |-> slab]
    ELSE [mem |-> [slab |-> slab.id, idx |-> slab.alloc_count_],
          slab |-> [slab EXCEPT !.alloc_count_ = @ + 1]]

\* Faulty variant of the slab limit test: `<=` for `<`.
MayAllocateSlab_OffByOne(P) == P.slab_count_ <= P.max_slabs_

\* "If we are allowed to allocate new slabs": the slab limit test of Allocate.
MayAllocateSlab(P) == P.slab_count_ < P.max_slabs_

\* Faulty variant of inc_free_list_size: the release build's empty body.
inc_free_list_size_Noop(P) == P

\* Faulty variant of dec_free_list_size: the release build's empty body.
dec_free_list_size_Noop(P) == P

\* inc_free_list_size of the debug build.
inc_free_list_size(P) == [P EXCEPT !.free_list_size_ = @ + 1]

\* dec_free_list_size of the debug build.
dec_free_list_size(P) == [P EXCEPT !.free_list_size_ = @ - 1]

\* Faulty variant of the first branch: front() for pop_front().
AllocFromFreeList_NoPop(P) ==
    [pool |-> dec_free_list_size(P), mem |-> front(P.free_list_)]

\* Allocate, first branch: take the head of the free list.
AllocFromFreeList(P) ==
    [pool |-> [dec_free_list_size(P) EXCEPT !.free_list_ = pop_front(@)],
     mem |-> front(P.free_list_)]

\* Faulty variant of the second branch: `auto` for `auto&`, the carve is made
\* on a copy of the active slab.
AllocFromActiveSlab_Copy(P) ==
    [pool |-> P, mem |-> SlabAllocate(front(P.slab_list_)).mem]

\* Allocate, second branch: carve from slab_list_.front(), the active slab.
AllocFromActiveSlab(P) ==
    LET r == SlabAllocate(front(P.slab_list_))
    IN [pool |-> [P EXCEPT !.slab_list_ = push_front(pop_front(@), r.slab)],
        mem |-> r.mem]

\* Faulty variant of the third branch: push_back for push_front, the new slab
\* does not become the active one.
AllocFromNewSlab_PushBack(P, slab_mem) ==
    LET r == SlabAllocate([id |-> slab_mem, alloc_count_ |-> 0])
    IN [pool |-> [P EXCEPT !.slab_count_ = @ + 1,
                           !.slab_list_ = Append(@, r.slab)],
        mem |-> r.mem]

\* Faulty variant of the third branch: slab_count_++ forgotten.
AllocFromNewSlab_NoCount(P, slab_mem) ==
    LET r == SlabAllocate([id |-> slab_mem, alloc_count_ |-> 0])
    IN [pool |-> [P EXCEPT !.slab_list_ = push_front(@, r.slab)], mem |-> r.mem]

\* Allocate, third branch, once aligned_alloc has returned region slab_mem:
\* placement-new the Slab, count it, push it to the front, carve from it.
AllocFromNewSlab(P, slab_mem) ==
    LET r == SlabAllocate([id |-> slab_mem, alloc_count_ |-> 0])
    IN [pool |-> [P EXCEPT !.slab_count_ = @ + 1,
                           !.slab_list_ = push_front(@, r.slab)],
        mem |-> r.mem]

\* Faulty variant of Allocate: the active slab is tried before the free list.
Allocate_SlabFirst(P, h, ok) ==
    LET carved == IF is_empty(P.slab_list_)
                  THEN [pool |-> P, mem |-> NULL]
                  ELSE AllocFromActiveSlab(P)
        P1 == carved.pool
    IN IF carved.mem # NULL
       THEN [pool |-> P1, heap |-> h, mem |-> carved.mem, host_calls |-> 0]
       ELSE IF ~is_empty(P1.free_list_)
       THEN LET r == AllocFromFreeList(P1)
            IN [pool |-> r.pool, heap |-> h, mem |-> r.mem, host_calls |-> 0]
       ELSE IF MayAllocateSlab(P1)
       THEN LET slab_mem == aligned_alloc(h, ok)
            IN IF slab_mem # 0
               THEN LET r == AllocFromNewSlab(P1, slab_mem)
                    IN [pool |-> r.pool, heap |-> h \cup {slab_mem},
                        mem |-> r.mem, host_calls |-> 1]
               ELSE [pool |-> P1, heap |-> h, mem |-> NULL, host_calls |-> 1]
       ELSE [pool |-> P1, heap |-> h, mem |-> NULL, host_calls |-> 0]

\* Faulty variant of Allocate: the free list is looked at last, after the
\* active slab and after an attempt to grow.
Allocate_FreeListLast(P, h, ok) ==
    LET carved == IF is_empty(P.slab_list_)
                  THEN [pool |-> P, mem |-> NULL]
                  ELSE AllocFromActiveSlab(P)
        P1 == carved.pool
        slab_mem == aligned_alloc(h, ok)
    IN IF carved.mem # NULL
       THEN [pool |-> P1, heap |-> h, mem |-> carved.mem, host_calls |-> 0]
       ELSE IF MayAllocateSlab(P1) /\ slab_mem # 0
       THEN LET r == AllocFromNewSlab(P1, slab_mem)
            IN [pool |-> r.pool, heap |-> h \cup {slab_mem},
                mem |-> r.mem, host_calls |-> 1]
       ELSE IF ~is_empty(P1.free_list_)
       THEN LET r == AllocFromFreeList(P1)
            IN [pool |-> r.pool, heap |-> h, mem |-> r.mem,
                host_calls |-> IF MayAllocateSlab(P1) THEN 1 ELSE 0]
       ELSE [pool |-> P1, heap |-> h, mem |-> NULL,
             host_calls |-> IF MayAllocateSlab(P1) THEN 1 ELSE 0]

\* Faulty variant of Allocate: the second and third branches exchanged, a
\* slab is allocated while the limit allows and the active slab tried last.
Allocate_GrowFirst(P, h, ok) ==
    IF ~is_empty(P.free_list_)
    THEN LET r == AllocFromFreeList(P)
         IN [pool |-> r.pool, heap |-> h, mem |-> r.mem, host_calls |-> 0]
    ELSE LET slab_mem == IF MayAllocateSlab(P) THEN aligned_alloc(h, ok) ELSE 0
             calls == IF MayAllocateSlab(P) THEN 1 ELSE 0
         IN IF slab_mem # 0
            THEN LET r == AllocFromNewSlab(P, slab_mem)
                 IN [pool |-> r.pool, heap |-> h \cup {slab_mem},
                     mem |-> r.mem, host_calls |-> 1]
            ELSE IF is_empty(P.slab_list_)
            THEN [pool |-> P, heap |-> h, mem |-> NULL, host_calls |-> calls]
            ELSE LET carved == AllocFromActiveSlab(P)
                 IN [pool |-> carved.pool, heap |-> h, mem |-> carved.mem,
                     host_calls |-> calls]

\* Faulty variant of Allocate: slab_count_++ before the test of slab_mem, so
\* that a failed aligned_alloc uses up one slab of the limit.
Allocate_CountBeforeAlloc(P, h, ok) ==
    IF ~is_empty(P.free_list_)
    THEN LET r == AllocFromFreeList(P)
         IN [pool |-> r.pool, heap |-> h, mem |-> r.mem, host_calls |-> 0]
    ELSE LET carved == IF is_empty(P.slab_list_)
                       THEN [pool |-> P, mem |-> NULL]
                       ELSE AllocFromActiveSlab(P)
             P1 == carved.pool
         IN IF carved.mem # NULL
            THEN [pool |-> P1, heap |-> h, mem |-> carved.mem, host_calls |-> 0]
            ELSE IF MayAllocateSlab(P1)
            THEN LET slab_mem == aligned_alloc(h, ok)
                 IN IF slab_mem # 0
                    THEN LET r == AllocFromNewSlab(P1, slab_mem)
                         IN [pool |-> r.pool, heap |-> h \cup {slab_mem},
                             mem |-> r.mem, host_calls |-> 1]
                    ELSE [pool |-> [P1 EXCEPT !.slab_count_ = @ + 1], heap |-> h,
                          mem |-> NULL, host_calls |-> 1]
            ELSE [pool |-> P1, heap |-> h, mem |-> NULL, host_calls |-> 0]

\* Allocate, whole, on members P with the host holding regions h and answering
\* ok to a request. host_calls counts the calls of aligned_alloc.
Allocate(P, h, ok) ==
    IF ~is_empty(P.free_list_)
    THEN LET r == AllocFromFreeList(P)
         IN [pool |-> r.pool, heap |-> h, mem |-> r.mem, host_calls |-> 0]
    ELSE LET carved == IF is_empty(P.slab_list_)
                       THEN [pool |-> P, mem |-> NULL]
                       ELSE AllocFromActiveSlab(P)
             P1 == carved.pool
         IN IF carved.mem # NULL
            THEN [pool |-> P1, heap |-> h, mem |-> carved.mem, host_calls |-> 0]
            ELSE IF MayAllocateSlab(P1)
            THEN LET slab_mem == aligned_alloc(h, ok)
                 IN IF slab_mem # 0
                    THEN LET r == AllocFromNewSlab(P1, slab_mem)
                         IN [pool |-> r.pool, heap |-> h \cup {slab_mem},
                             mem |-> r.mem, host_calls |-> 1]
                    ELSE [pool |-> P1, heap |-> h, mem |-> NULL, host_calls |-> 1]
            ELSE [pool |-> P1, heap |-> h, mem |-> NULL, host_calls |-> 0]

\* Faulty variant of ReturnToFreeList: the block is also handed back to its
\* slab, whose alloc_count_ is decremented.
ReturnToFreeList_Uncarve(P, ptr) ==
    [inc_free_list_size(P) EXCEPT
        !.free_list_ = push_front(@, ptr),
        !.slab_list_ = [i \in 1..Len(@) |->
                           IF @[i].id = ptr.slab
                           THEN [@[i] EXCEPT !.alloc_count_ = @ - 1]
                           ELSE @[i]]]

\* Faulty variant of ReturnToFreeList: the entry is counted but never linked.
ReturnToFreeList_NoPush(P, ptr) == inc_free_list_size(P)

\* Faulty variant of ReturnToFreeList: the entry is linked at the tail.
ReturnToFreeList_PushBack(P, ptr) ==
    [inc_free_list_size(P) EXCEPT !.free_list_ = Append(@, ptr)]

\* ReturnToFreeList: a FreeListEntry is constructed in ptr and linked at the head.
ReturnToFreeList(P, ptr) ==
    [inc_free_list_size(P) EXCEPT !.free_list_ = push_front(@, ptr)]

\* Faulty variant of SetOrigin: the static specialisation's empty body.
SetOrigin_Unset(obj, origin) == obj

\* SlabOriginSetter::SetOrigin (instanced): obj->slab_origin_ = origin.
SetOrigin(obj, origin) == [obj EXCEPT !.slab_origin_ = origin]

\* The object New constructs in mem: placement new, then SetOrigin(obj, this).
\* made_by is history: the pool whose New constructed the object.
NewObject(mem, this) ==
    SetOrigin([mem |-> mem, slab_origin_ |-> 0, made_by |-> this], this)

\* Faulty variant of the constructor: first_alloc is not handed to
\* ReturnToFreeList.
CtorBody_KeepsBlock(max_slabs, alloc_initial, h, ok) ==
    LET P0 == Constructed(max_slabs)
        a == Allocate(P0, h, ok)
    IN IF ~alloc_initial
       THEN [pool |-> P0, heap |-> h, host_calls |-> 0, mem |-> NULL]
       ELSE [pool |-> a.pool, heap |-> a.heap, host_calls |-> a.host_calls,
             mem |-> a.mem]

\* The constructor's body: with alloc_initial, one Allocate whose block goes
\* straight to the free list.
CtorBody(max_slabs, alloc_initial, h, ok) ==
    LET P0 == Constructed(max_slabs)
        a == Allocate(P0, h, ok)
    IN IF ~alloc_initial
       THEN [pool |-> P0, heap |-> h, host_calls |-> 0, mem |-> NULL]
       ELSE [pool |-> IF a.mem # NULL THEN ReturnToFreeList(a.pool, a.mem)
                      ELSE a.pool,
             heap |-> a.heap, host_calls |-> a.host_calls, mem |-> a.mem]

\* Faulty variant of the destructor: an if for the while, only the front slab
\* is popped and freed.
DtorBody_FrontOnly(P, h) ==
    [pool |-> [P EXCEPT !.lifetime = "dead",
                        !.slab_list_ = IF is_empty(@) THEN @ ELSE pop_front(@),
                        !.free_list_ = <<>>],
     heap |-> IF is_empty(P.slab_list_) THEN h
              ELSE h \ {front(P.slab_list_).id},
     leak |-> P.free_list_size_ #
                 (IF is_empty(P.slab_list_) THEN 0
                  ELSE front(P.slab_list_).alloc_count_)]

\* The destructor's body: every slab is popped and freed, the counts compared,
\* the free list cleared. leak is the failure of the DEBUG_ASSERT.
DtorBody(P, h) ==
    [pool |-> [P EXCEPT !.lifetime = "dead", !.slab_list_ = <<>>,
                        !.free_list_ = <<>>],
     heap |-> h \ {P.slab_list_[i].id : i \in 1..Len(P.slab_list_)},
     leak |-> P.free_list_size_ # SumAllocCount(P.slab_list_)]

----------------------------------------------------------------------------
\* The state before any constructor has run.

NoHist ==
    [max_slabs |-> 0, alloc_initial |-> FALSE, prealloc_ok |-> FALSE]

NoOp == [op |-> "none", pool |-> 0, ret |-> NULL, host_calls |-> 0]

NoFrame == [self |-> 0, mem |-> NULL, ptr |-> NULL]

NoSnap == [pool |-> Unborn, heap |-> {}]

NoWork ==
    [of |-> [t \in Threads |-> [done |-> 0, held |-> {}]],
     got |-> {}, again |-> FALSE]

Init ==
    /\ pools = [p \in Pools |-> Unborn]
    /\ heap = {}
    /\ objs = EmptyBag
    /\ panicked = FALSE
    /\ hist = [p \in Pools |-> NoHist]
    /\ last = NoOp
    /\ pc = [t \in Threads |-> "idle"]
    /\ frame = [t \in Threads |-> NoFrame]
    /\ snap = [t \in Threads |-> NoSnap]
    /\ work = NoWork
    /\ ref_count_ = EmptyBag
    /\ ptrs = EmptyBag
    /\ outer = [t \in Threads |-> NoFrame]

\* No thread is inside a call on pool p.
Quiescent(p) == \A t \in Threads : pc[t] = "idle" \/ frame[t].self # p

----------------------------------------------------------------------------
\* The operations, each as one atomic action.

\* SlabAllocator(max_slabs, alloc_initial).
Ctor(p, max_slabs, alloc_initial, ok) ==
    /\ ~panicked
    /\ pools[p].lifetime = "unborn"
    /\ LET r == CtorBody(max_slabs, alloc_initial, heap, ok)
       IN /\ pools' = [pools EXCEPT ![p] = r.pool]
          /\ heap' = r.heap
          /\ hist' = [hist EXCEPT ![p] =
                        [max_slabs |-> max_slabs, alloc_initial |-> alloc_initial,
                         prealloc_ok |-> r.mem # NULL]]
          /\ last' = [op |-> "Ctor", pool |-> p, ret |-> r.mem,
                      host_calls |-> r.host_calls]
    /\ UNCHANGED <<objs, panicked, pc, frame>>

\* New(args...): Allocate, then construct, SetOrigin and CreatePtr.
New(p, ok) ==
    /\ ~panicked
    /\ pools[p].lifetime = "alive"
    /\ LET r == Allocate(pools[p], heap, ok)
       IN /\ pools' = [pools EXCEPT ![p] = r.pool]
          /\ heap' = r.heap
          /\ objs' = IF r.mem = NULL THEN objs
                     ELSE objs (+) SetToBag({NewObject(r.mem, p)})
          /\ last' = [op |-> "New", pool |-> p, ret |-> r.mem,
                      host_calls |-> r.host_calls]
    /\ UNCHANGED <<panicked, hist, pc, frame>>

\* SlabAllocated<>::operator delete(ptr), reached from `delete obj` once the
\* destructor of the object has run.
Delete(o) ==
    /\ ~panicked
    /\ o \in BagToSet(objs)
    /\ objs' = objs (-) SetToBag({o})
    /\ IF o.slab_origin_ \notin Pools
       THEN \* DEBUG_ASSERT(obj_ptr->slab_origin_ != nullptr)
            /\ panicked' = TRUE
            /\ UNCHANGED pools
       ELSE /\ pools' = [pools EXCEPT ![o.slab_origin_] = ReturnToFreeList(@, o.mem)]
            /\ UNCHANGED panicked
    /\ last' = [op |-> "Delete", pool |-> o.slab_origin_, ret |-> o.mem,
                host_calls |-> 0]
    /\ UNCHANGED <<heap, hist, pc, frame>>

\* ~SlabAllocator().
Dtor(p) ==
    /\ ~panicked
    /\ pools[p].lifetime = "alive"
    /\ Quiescent(p)
    /\ LET r == DtorBody(pools[p], heap)
       IN /\ pools' = [pools EXCEPT ![p] = r.pool]
          /\ heap' = r.heap
          /\ panicked' = r.leak
    /\ last' = [op |-> "Dtor", pool |-> p, ret |-> NULL, host_calls |-> 0]
    /\ UNCHANGED <<objs, hist, pc, frame>>

\* The single-threaded program with one pool.
SoloPools == {1}

Next ==
    \/ \E p \in SoloPools, m \in 0..MaxSlabsArg, a \in BOOLEAN, ok \in BOOLEAN :
          Ctor(p, m, a, ok) /\ UNCHANGED aux
    \/ \E p \in SoloPools, ok \in BOOLEAN : New(p, ok) /\ UNCHANGED aux
    \/ \E o \in BagToSet(objs) : Delete(o) /\ UNCHANGED aux
    \/ \E p \in SoloPools : Dtor(p) /\ UNCHANGED aux

Spec == Init /\ [][Next]_vars

\* SpecFlavors: the same single-threaded program run on an instanced pool and
\* on the static pool of another type, call for call: the constructors get
\* the same arguments, every New is made on both with the host answering
\* alike, and every delete is of the objects the same New returned. The two
\* pools live in one address space, so their slabs lie at different regions;
\* they are compared by the order in which a pool got its slabs.
InstancedPool == 1
\* SlabAllocator<SATraits>::allocator_ of the static flavor.
StaticPool == 2

\* SlabOriginSetter::SetOrigin (static): the empty body.
SetOriginStatic(obj, origin) == obj

\* The object New constructs with the static flavor: SlabAllocated<> has no
\* slab_origin_ (modelled as 0, never read).
StaticObject(mem, this) ==
    SetOriginStatic([mem |-> mem, slab_origin_ |-> 0, made_by |-> this], this)

\* Faulty variant of the static operator delete: the block is not forwarded.
StaticOperatorDelete_Dropped(P, ptr) == P

\* SlabAllocated<>::operator delete (static):
\* AllocatorType::ReturnToFreeList(ptr), which is allocator_.ReturnToFreeList.
StaticOperatorDelete(P, ptr) == ReturnToFreeList(P, ptr)

\* The how-manieth slab of P the slab at region id is (the front of the slab
\* list is the newest), and a block named by that instead of the region.
SlabIndex(P, id) ==
    CHOOSE k \in 0..Len(P.slab_list_) :
        \/ k > 0 /\ P.slab_list_[Len(P.slab_list_) - k + 1].id = id
        \/ k = 0 /\ id \notin {P.slab_list_[i].id : i \in 1..Len(P.slab_list_)}
Rename(P, c) == [slab |-> SlabIndex(P, c.slab), idx |-> c.idx]

\* The members of P with every slab and block named by slab order.
Normalise(P) ==
    [P EXCEPT !.slab_list_ = [i \in 1..Len(@) |-> [@[i] EXCEPT !.id = SlabIndex(P, @)]],
              !.free_list_ = [i \in 1..Len(@) |-> Rename(P, @[i])]]

FlavorCtor(max_slabs, alloc_initial, ok) ==
    /\ ~panicked
    /\ pools[InstancedPool].lifetime = "unborn"
    /\ pools[StaticPool].lifetime = "unborn"
    /\ LET r1 == CtorBody(max_slabs, alloc_initial, heap, ok)
           r2 == CtorBody(max_slabs, alloc_initial, r1.heap, ok)
           h == [max_slabs |-> max_slabs, alloc_initial |-> alloc_initial,
                 prealloc_ok |-> r1.mem # NULL]
       IN /\ pools' = [pools EXCEPT ![InstancedPool] = r1.pool,
                                    ![StaticPool] = r2.pool]
          /\ heap' = r2.heap
          /\ hist' = [hist EXCEPT ![InstancedPool] = h, ![StaticPool] = h]
          /\ last' = [op |-> "Ctor", pool |-> InstancedPool, ret |-> r1.mem,
                      host_calls |-> r1.host_calls]
    /\ UNCHANGED <<objs, panicked, pc, frame>>

FlavorNew(ok) ==
    /\ ~panicked
    /\ pools[InstancedPool].lifetime = "alive"
    /\ pools[StaticPool].lifetime = "alive"
    /\ LET r1 == Allocate(pools[InstancedPool], heap, ok)
           r2 == Allocate(pools[StaticPool], r1.heap, ok)
       IN /\ pools' = [pools EXCEPT ![InstancedPool] = r1.pool,
                                    ![StaticPool] = r2.pool]
          /\ heap' = r2.heap
          /\ objs' = objs
                (+) (IF r1.mem = NULL THEN EmptyBag
                     ELSE SetToBag({NewObject(r1.mem, InstancedPool)}))
                (+) (IF r2.mem = NULL THEN EmptyBag
                     ELSE SetToBag({StaticObject(r2.mem, StaticPool)}))
          /\ last' = [op |-> "New", pool |-> InstancedPool, ret |-> r1.mem,
                      host_calls |-> r1.host_calls]
    /\ UNCHANGED <<panicked, hist, pc, frame>>

FlavorDelete(o1, o2) ==
    /\ ~panicked
    /\ o1.made_by = InstancedPool
    /\ o2.made_by = StaticPool
    /\ Rename(pools[InstancedPool], o1.mem) = Rename(pools[StaticPool], o2.mem)
    /\ objs' = objs (-) SetToBag({o1, o2})
    /\ IF o1.slab_origin_ \notin Pools
       THEN /\ panicked' = TRUE
            /\ UNCHANGED pools
       ELSE /\ pools' = [q \in Pools |->
                 LET P1 == IF q = o1.slab_origin_
                           THEN ReturnToFreeList(pools[q], o1.mem) ELSE pools[q]
                 IN IF q = StaticPool THEN StaticOperatorDelete(P1, o2.mem) ELSE P1]
            /\ UNCHANGED panicked
    /\ last' = [op |-> "Delete", pool |-> o1.slab_origin_, ret |-> o1.mem,
                host_calls |-> 0]
    /\ UNCHANGED <<heap, hist, pc, frame>>

NextFlavors ==
    \/ \E m \in 0..MaxSlabsArg, a \in BOOLEAN, ok \in BOOLEAN :
          FlavorCtor(m, a, ok) /\ UNCHANGED aux
    \/ \E ok \in BOOLEAN : FlavorNew(ok) /\ UNCHANGED aux
    \/ \E o1, o2 \in BagToSet(objs) : FlavorDelete(o1, o2) /\ UNCHANGED aux

SpecFlavors == Init /\ [][NextFlavors]_vars

\* SpecRef: the single-threaded program, with the slab limit of the usage
\* example, of the RefPtr flavor. An object is born with a reference count of
\* one; copying a RefPtr adds one to the count of its object, destroying a
\* RefPtr takes one away, and the RefPtr that takes the count to zero deletes
\* the object.

\* A bag with n copies of o.
Copies(o, n) == [x \in {o} |-> n]

\* Faulty variant of CreatePtr: RefPtr<T>(ptr) for AdoptRef, one count more.
CreatePtr_AddRef(count) == count + 1

\* SlabAllocatorPtrTraits<RefPtr<T>>::CreatePtr: AdoptRef wraps the pointer
\* and leaves the count alone.
CreatePtr(count) == count

NewRef(p, ok) ==
    /\ New(p, ok)
    /\ IF last'.ret = NULL
       THEN UNCHANGED <<ref_count_, ptrs>>
       ELSE LET o == NewObject(last'.ret, p)
            IN /\ ref_count_' = ref_count_ (+) Copies(o, CreatePtr(1))
               /\ ptrs' = ptrs (+) Copies(o, 1)

CopyRef(o) ==
    /\ ~panicked
    /\ CopiesIn(o, ptrs) < MaxRefs
    /\ ptrs' = ptrs (+) Copies(o, 1)
    /\ ref_count_' = ref_count_ (+) Copies(o, 1)
    /\ UNCHANGED <<pools, heap, objs, panicked, hist, last, pc, frame>>

DropRef(o) ==
    /\ ~panicked
    /\ ptrs' = ptrs (-) Copies(o, 1)
    /\ ref_count_' = ref_count_ (-) Copies(o, 1)
    /\ IF CopiesIn(o, ref_count_) = 1
       THEN Delete(o)
       ELSE UNCHANGED <<pools, heap, objs, panicked, hist, last, pc, frame>>

NextRef ==
    \/ \E p \in SoloPools, m \in {ExampleMaxSlabs}, a \in BOOLEAN, ok \in BOOLEAN :
          Ctor(p, m, a, ok) /\ UNCHANGED aux
    \/ \E p \in SoloPools, ok \in BOOLEAN : NewRef(p, ok) /\ UNCHANGED <<snap, work, outer>>
    \/ \E o \in BagToSet(ptrs) : CopyRef(o) /\ UNCHANGED <<snap, work, outer>>
    \/ \E o \in BagToSet(ptrs) : DropRef(o) /\ UNCHANGED <<snap, work, outer>>
    \/ \E p \in SoloPools : Dtor(p) /\ UNCHANGED aux

SpecRef == Init /\ [][NextRef]_vars

\* SpecThrow: the single-threaded program, with the slab limit of the usage
\* example, in a build with exceptions and an ObjType whose constructor can
\* throw. New has no handler around `new (mem) ObjType(...)`, and for the
\* global placement operator new the only matching deallocation function is
\* the placement operator delete(void*, void*), which does nothing (the
\* class's operator delete(void*) is not a placement form): the exception
\* leaves New with the pool as Allocate left it and no object.
NewThrows(p, ok) ==
    /\ ~panicked
    /\ pools[p].lifetime = "alive"
    /\ LET r == Allocate(pools[p], heap, ok)
       IN /\ r.mem # NULL
          /\ pools' = [pools EXCEPT ![p] = r.pool]
          /\ heap' = r.heap
          /\ last' = [op |-> "NewThrows", pool |-> p, ret |-> r.mem,
                      host_calls |-> r.host_calls]
    /\ UNCHANGED <<objs, panicked, hist, pc, frame>>

NextThrow ==
    \/ \E p \in SoloPools, m \in {ExampleMaxSlabs}, a \in BOOLEAN, ok \in BOOLEAN :
          Ctor(p, m, a, ok) /\ UNCHANGED aux
    \/ \E p \in SoloPools, ok \in BOOLEAN : New(p, ok) /\ UNCHANGED aux
    \/ \E p \in SoloPools, ok \in BOOLEAN : NewThrows(p, ok) /\ UNCHANGED aux
    \/ \E o \in BagToSet(objs) : Delete(o) /\ UNCHANGED aux
    \/ \E p \in SoloPools : Dtor(p) /\ UNCHANGED aux

SpecThrow == Init /\ [][NextThrow]_vars

\* SpecMisuse: the single-threaded program, with the slab limit of the usage
\* example, of a caller that keeps the pointer of an object it has deleted
\* and deletes it again before any New has returned that block. Every block
\* on the free list of a pool built without alloc_initial was dispensed and
\* deleted, so each may be deleted again.
\* The second `delete` reads slab_origin_ out of a block whose first word
\* ReturnToFreeList has overwritten with a FreeListEntry: with slab_origin_ at
\* that word and the entry's link null the DEBUG_ASSERT of operator delete
\* fails; with slab_origin_ elsewhere in the object (or with the static
\* flavor, which has none) ReturnToFreeList runs again on the same pool.
DeleteAgain(p, mem, origin_intact) ==
    /\ ~panicked
    /\ pools[p].lifetime = "alive"
    /\ ~hist[p].alloc_initial
    /\ Cardinality({i \in 1..Len(pools[p].free_list_) :
                        pools[p].free_list_[i] = mem}) = 1
    /\ mem \notin {o.mem : o \in BagToSet(objs)}
    /\ IF origin_intact
       THEN /\ pools' = [pools EXCEPT ![p] = ReturnToFreeList(@, mem)]
            /\ UNCHANGED panicked
       ELSE /\ panicked' = TRUE
            /\ UNCHANGED pools
    /\ last' = [op |-> "DeleteAgain", pool |-> p, ret |-> mem, host_calls |-> 0]
    /\ UNCHANGED <<heap, objs, hist, pc, frame>>

NextMisuse ==
    \/ \E p \in SoloPools, m \in {ExampleMaxSlabs}, a \in BOOLEAN, ok \in BOOLEAN :
          Ctor(p, m, a, ok) /\ UNCHANGED aux
    \/ \E p \in SoloPools, ok \in BOOLEAN : New(p, ok) /\ UNCHANGED aux
    \/ \E o \in BagToSet(objs) : Delete(o) /\ UNCHANGED aux
    \/ \E p \in SoloPools : Dtor(p) /\ UNCHANGED aux
    \/ \E p \in SoloPools, i \in BOOLEAN :
          \E mem \in Range(pools[p].free_list_) :
              DeleteAgain(p, mem, i) /\ UNCHANGED aux

SpecMisuse == Init /\ [][NextMisuse]_vars

\* The single-threaded program with several pools "of the same configuration":
\* every constructor gets the arguments the first one got, and the slab limit
\* of the usage example.
SameConfiguration(m, a) ==
    \A q \in Pools : pools[q].lifetime # "unborn" =>
        hist[q].max_slabs = m /\ hist[q].alloc_initial = a

NextPools ==
    \/ \E p \in Pools, m \in {ExampleMaxSlabs}, a \in BOOLEAN, ok \in BOOLEAN :
          SameConfiguration(m, a) /\ Ctor(p, m, a, ok) /\ UNCHANGED aux
    \/ \E p \in Pools, ok \in BOOLEAN : New(p, ok) /\ UNCHANGED aux
    \/ \E o \in BagToSet(objs) : Delete(o) /\ UNCHANGED aux
    \/ \E p \in Pools : Dtor(p) /\ UNCHANGED aux

SpecPools == Init /\ [][NextPools]_vars

----------------------------------------------------------------------------
\* SpecMT: New and operator delete statement by statement, one thread each.

\* mxtl::Mutex: Acquire returns once no thread holds the mutex.
MutexFree(P) == P.alloc_lock_ = NoThread

Goto(t, label) == pc' = [pc EXCEPT ![t] = label]
Self(t) == frame[t].self

\* A caller enters New on pool p.
CallNew(t, p) ==
    /\ ~panicked
    /\ pc[t] = "idle"
    /\ pools[p].lifetime = "alive"
    /\ frame' = [frame EXCEPT ![t] = [NoFrame EXCEPT !.self = p]]
    /\ Goto(t, "Allocate_lock")
    /\ UNCHANGED <<pools, heap, objs, panicked, hist, last>>

\* Faulty variant of Allocate's first statement: the mutex is taken without
\* waiting for its holder.
AllocLock_NoWait(t) ==
    /\ pc[t] = "Allocate_lock"
    /\ pools' = [pools EXCEPT ![Self(t)].alloc_lock_ = t]
    /\ Goto(t, "Allocate_free")
    /\ UNCHANGED <<heap, objs, panicked, hist, last, frame>>

\* Faulty variant of Allocate's first statement: the AutoLock is missing.
AllocLock_NotTaken(t) ==
    /\ pc[t] = "Allocate_lock"
    /\ Goto(t, "Allocate_free")
    /\ UNCHANGED <<pools, heap, objs, panicked, hist, last, frame>>

\* Allocate: AutoLock alloc_lock(this->alloc_lock_).
AllocLock(t) ==
    /\ pc[t] = "Allocate_lock"
    /\ MutexFree(pools[Self(t)])
    /\ pools' = [pools EXCEPT ![Self(t)].alloc_lock_ = t]
    /\ Goto(t, "Allocate_free")
    /\ UNCHANGED <<heap, objs, panicked, hist, last, frame>>

\* Allocate: if (!free_list_.is_empty()) { dec_free_list_size(); ...
AllocTestFree(t) ==
    /\ pc[t] = "Allocate_free"
    /\ IF ~is_empty(pools[Self(t)].free_list_)
       THEN /\ pools' = [pools EXCEPT ![Self(t)] = dec_free_list_size(@)]
            /\ Goto(t, "Allocate_pop")
       ELSE /\ UNCHANGED pools
            /\ Goto(t, "Allocate_slab")
    /\ UNCHANGED <<heap, objs, panicked, hist, last, frame>>

\* ... return free_list_.pop_front(): the head is read ...
AllocPopRead(t) ==
    /\ pc[t] = "Allocate_pop"
    /\ frame' = [frame EXCEPT ![t].mem =
                    IF is_empty(pools[Self(t)].free_list_) THEN NULL
                    ELSE front(pools[Self(t)].free_list_)]
    /\ Goto(t, "Allocate_unlink")
    /\ UNCHANGED <<pools, heap, objs, panicked, hist, last>>

\* Faulty variant of pop_front: the head is returned and stays linked.
AllocPopUnlink_NoUnlink(t) ==
    /\ pc[t] = "Allocate_unlink"
    /\ Goto(t, "Allocate_unlock")
    /\ UNCHANGED <<pools, heap, objs, panicked, hist, last, frame>>

\* ... and unlinked.
AllocPopUnlink(t) ==
    /\ pc[t] = "Allocate_unlink"
    /\ pools' = [pools EXCEPT ![Self(t)].free_list_ =
                    IF is_empty(@) THEN @ ELSE pop_front(@)]
    /\ Goto(t, "Allocate_unlock")
    /\ UNCHANGED <<heap, objs, panicked, hist, last, frame>>

\* Allocate: if (!slab_list_.is_empty()) { mem = active_slab.Allocate(); ...
AllocSlab(t) ==
    /\ pc[t] = "Allocate_slab"
    /\ LET P == pools[Self(t)]
           r == IF is_empty(P.slab_list_) THEN [pool |-> P, mem |-> NULL]
                ELSE AllocFromActiveSlab(P)
       IN /\ pools' = [pools EXCEPT ![Self(t)] = r.pool]
          /\ frame' = [frame EXCEPT ![t].mem = r.mem]
          /\ Goto(t, IF r.mem # NULL THEN "Allocate_unlock" ELSE "Allocate_grow")
    /\ UNCHANGED <<heap, objs, panicked, hist, last>>

\* Allocate: if (slab_count_ < max_slabs_) { ... } return nullptr.
AllocGrow(t, ok) ==
    /\ pc[t] = "Allocate_grow"
    /\ LET P == pools[Self(t)]
           slab_mem == aligned_alloc(heap, ok)
       IN IF MayAllocateSlab(P) /\ slab_mem # 0
          THEN LET r == AllocFromNewSlab(P, slab_mem)
               IN /\ pools' = [pools EXCEPT ![Self(t)] = r.pool]
                  /\ heap' = heap \cup {slab_mem}
                  /\ frame' = [frame EXCEPT ![t].mem = r.mem]
          ELSE /\ frame' = [frame EXCEPT ![t].mem = NULL]
               /\ UNCHANGED <<pools, heap>>
    /\ Goto(t, "Allocate_unlock")
    /\ UNCHANGED <<objs, panicked, hist, last>>

\* Faulty variant of Allocate's return: the mutex stays held while New goes on.
AllocUnlock_Kept(t) ==
    /\ pc[t] = "Allocate_unlock"
    /\ Goto(t, "New_check")
    /\ UNCHANGED <<pools, heap, objs, panicked, hist, last, frame>>

\* Allocate returns: ~AutoLock releases the mutex the thread holds.
AllocUnlock(t) ==
    /\ pc[t] = "Allocate_unlock"
    /\ pools' = [pools EXCEPT ![Self(t)].alloc_lock_ =
                    IF @ = t THEN NoThread ELSE @]
    /\ Goto(t, "New_check")
    /\ UNCHANGED <<heap, objs, panicked, hist, last, frame>>

\* New: if (mem == nullptr) return nullptr.
NewCheck(t) ==
    /\ pc[t] = "New_check"
    /\ IF frame[t].mem = NULL
       THEN Goto(t, "idle") /\ frame' = [frame EXCEPT ![t] = NoFrame]
       ELSE Goto(t, "New_construct") /\ UNCHANGED frame
    /\ UNCHANGED <<pools, heap, objs, panicked, hist, last>>

\* New: placement new, SetOrigin, return CreatePtr(obj).
NewConstruct(t) ==
    /\ pc[t] = "New_construct"
    /\ objs' = objs (+) SetToBag({NewObject(frame[t].mem, Self(t))})
    /\ frame' = [frame EXCEPT ![t] = NoFrame]
    /\ Goto(t, "idle")
    /\ UNCHANGED <<pools, heap, panicked, hist, last>>

\* `delete obj`: the destructor runs, then operator delete(ptr) is entered
\* and calls slab_origin_->ReturnToFreeList(ptr).
CallDelete(t, o) ==
    /\ ~panicked
    /\ pc[t] = "idle"
    /\ o \in BagToSet(objs)
    /\ objs' = objs (-) SetToBag({o})
    /\ IF o.slab_origin_ \notin Pools
       THEN /\ panicked' = TRUE
            /\ UNCHANGED <<pc, frame>>
       ELSE /\ frame' = [frame EXCEPT ![t] =
                           [NoFrame EXCEPT !.self = o.slab_origin_, !.ptr = o.mem]]
            /\ Goto(t, "Return_entry")
            /\ UNCHANGED panicked
    /\ UNCHANGED <<pools, heap, hist, last>>

\* ReturnToFreeList: FreeListEntry* free_obj = new (ptr) FreeListEntry.
ReturnEntry(t) ==
    /\ pc[t] = "Return_entry"
    /\ Goto(t, "Return_lock")
    /\ UNCHANGED <<pools, heap, objs, panicked, hist, last, frame>>

\* Faulty variant of ReturnToFreeList: the AutoLock is missing.
ReturnLock_NotTaken(t) ==
    /\ pc[t] = "Return_lock"
    /\ Goto(t, "Return_push")
    /\ UNCHANGED <<pools, heap, objs, panicked, hist, last, frame>>

\* ReturnToFreeList: AutoLock alloc_lock(alloc_lock_).
ReturnLock(t) ==
    /\ pc[t] = "Return_lock"
    /\ MutexFree(pools[Self(t)])
    /\ pools' = [pools EXCEPT ![Self(t)].alloc_lock_ = t]
    /\ Goto(t, "Return_push")
    /\ UNCHANGED <<heap, objs, panicked, hist, last, frame>>

\* ReturnToFreeList: inc_free_list_size(); free_list_.push_front(free_obj).
ReturnPush(t) ==
    /\ pc[t] = "Return_push"
    /\ pools' = [pools EXCEPT ![Self(t)] = ReturnToFreeList(@, frame[t].ptr)]
    /\ Goto(t, "Return_unlock")
    /\ UNCHANGED <<heap, objs, panicked, hist, last, frame>>

\* Faulty variant of ReturnToFreeList's return: the mutex stays held.
ReturnUnlock_Kept(t) ==
    /\ pc[t] = "Return_unlock"
    /\ frame' = [frame EXCEPT ![t] = NoFrame]
    /\ Goto(t, "idle")
    /\ UNCHANGED <<pools, heap, objs, panicked, hist, last>>

\* ReturnToFreeList returns: the mutex is released.
ReturnUnlock(t) ==
    /\ pc[t] = "Return_unlock"
    /\ pools' = [pools EXCEPT ![Self(t)].alloc_lock_ =
                    IF @ = t THEN NoThread ELSE @]
    /\ frame' = [frame EXCEPT ![t] = NoFrame]
    /\ Goto(t, "idle")
    /\ UNCHANGED <<heap, objs, panicked, hist, last>>

\* History: what the thread found when it took the lock, kept until it
\* releases the lock.
TakeSnap(t) == snap' = [snap EXCEPT ![t] = [pool |-> pools'[Self(t)], heap |-> heap]]
DropSnap(t) == snap' = [snap EXCEPT ![t] = NoSnap]

NextMT ==
    \/ \E p \in SoloPools, m \in 0..MaxSlabsArgMT, a \in BOOLEAN, ok \in BOOLEAN :
          Ctor(p, m, a, ok) /\ UNCHANGED aux
    \/ \E p \in SoloPools : Dtor(p) /\ UNCHANGED aux
    \/ \E t \in Threads, p \in SoloPools : CallNew(t, p) /\ UNCHANGED aux
    \/ \E t \in Threads :
          AllocLock(t) /\ TakeSnap(t) /\ UNCHANGED <<work, ref_count_, ptrs, outer>>
    \/ \E t \in Threads : AllocTestFree(t) /\ UNCHANGED aux
    \/ \E t \in Threads : AllocPopRead(t) /\ UNCHANGED aux
    \/ \E t \in Threads : AllocPopUnlink(t) /\ UNCHANGED aux
    \/ \E t \in Threads : AllocSlab(t) /\ UNCHANGED aux
    \/ \E t \in Threads, ok \in BOOLEAN : AllocGrow(t, ok) /\ UNCHANGED aux
    \/ \E t \in Threads :
          AllocUnlock(t) /\ DropSnap(t) /\ UNCHANGED <<work, ref_count_, ptrs, outer>>
    \/ \E t \in Threads : NewCheck(t) /\ UNCHANGED aux
    \/ \E t \in Threads : NewConstruct(t) /\ UNCHANGED aux
    \/ \E t \in Threads, o \in BagToSet(objs) : CallDelete(t, o) /\ UNCHANGED aux
    \/ \E t \in Threads : ReturnEntry(t) /\ UNCHANGED aux
    \/ \E t \in Threads :
          ReturnLock(t) /\ TakeSnap(t) /\ UNCHANGED <<work, ref_count_, ptrs, outer>>
    \/ \E t \in Threads : ReturnPush(t) /\ UNCHANGED aux
    \/ \E t \in Threads :
          ReturnUnlock(t) /\ DropSnap(t) /\ UNCHANGED <<work, ref_count_, ptrs, outer>>

SpecMT == Init /\ [][NextMT]_vars

----------------------------------------------------------------------------
\* SpecS6: scenario S6. One pool with the mutex lock and max_slabs sized for
\* NumThreads * PairsPerThread acquires; every thread makes PairsPerThread
\* acquire/release pairs (a New, then the release of the object it got),
\* statement by statement as in SpecMT. A thread is joined once it has made
\* its pairs, holds nothing and is idle.

\* The smallest max_slabs whose blocks suffice for N * K acquires.
S6MaxSlabs ==
    (NumThreads * PairsPerThread + AllocsPerSlab - 1) \div AllocsPerSlab

S6Acquire(t, p) ==
    /\ work.of[t].done < PairsPerThread
    /\ work.of[t].held = {}
    /\ CallNew(t, p)
    /\ work' = [work EXCEPT !.of[t].done = @ + 1]

S6Acquired(t) ==
    /\ NewConstruct(t)
    /\ work' = [work EXCEPT !.of[t].held = @ \cup {frame[t].mem},
                            !.got = @ \cup {frame[t].mem},
                            !.again = @ \/ frame[t].mem \in work.got]

S6Release(t, o) ==
    /\ o.mem \in work.of[t].held
    /\ CallDelete(t, o)
    /\ work' = [work EXCEPT !.of[t].held = @ \ {o.mem}]

NextS6 ==
    \/ \E p \in SoloPools, a \in BOOLEAN, ok \in BOOLEAN :
          Ctor(p, S6MaxSlabs, a, ok) /\ UNCHANGED aux
    \/ \E t \in Threads, p \in SoloPools :
          S6Acquire(t, p) /\ UNCHANGED <<snap, ref_count_, ptrs, outer>>
    \/ \E t \in Threads : AllocLock(t) /\ UNCHANGED aux
    \/ \E t \in Threads : AllocTestFree(t) /\ UNCHANGED aux
    \/ \E t \in Threads : AllocPopRead(t) /\ UNCHANGED aux
    \/ \E t \in Threads : AllocPopUnlink(t) /\ UNCHANGED aux
    \/ \E t \in Threads : AllocSlab(t) /\ UNCHANGED aux
    \/ \E t \in Threads, ok \in BOOLEAN : AllocGrow(t, ok) /\ UNCHANGED aux
    \/ \E t \in Threads : AllocUnlock(t) /\ UNCHANGED aux
    \/ \E t \in Threads : NewCheck(t) /\ UNCHANGED aux
    \/ \E t \in Threads : S6Acquired(t) /\ UNCHANGED <<snap, ref_count_, ptrs, outer>>
    \/ \E t \in Threads, o \in BagToSet(objs) :
          S6Release(t, o) /\ UNCHANGED <<snap, ref_count_, ptrs, outer>>
    \/ \E t \in Threads : ReturnEntry(t) /\ UNCHANGED aux
    \/ \E t \in Threads : ReturnLock(t) /\ UNCHANGED aux
    \/ \E t \in Threads : ReturnPush(t) /\ UNCHANGED aux
    \/ \E t \in Threads : ReturnUnlock(t) /\ UNCHANGED aux

SpecS6 == Init /\ [][NextS6]_vars

\* Every thread has made its calls and has been joined.
Joined ==
    \A t \in Threads :
        /\ pc[t] = "idle"
        /\ work.of[t].done = PairsPerThread
        /\ work.of[t].held = {}

----------------------------------------------------------------------------
\* What the properties talk about.

SlabIds(P) == {P.slab_list_[i].id : i \in 1..Len(P.slab_list_)}

\* The objects the callers hold whose block lies in a slab of pool p.
LiveIn(p) == {o \in BagToSet(objs) : o.mem.slab \in SlabIds(pools[p])}
LiveCount(p) == BagCardinality([o \in LiveIn(p) |-> objs[o]])
LiveCells == {o.mem : o \in BagToSet(objs)}

\* max_slabs * AllocsPerSlab.
Capacity(p) == pools[p].max_slabs_ * AllocsPerSlab

Alive(p) == pools[p].lifetime = "alive"

\* This step is a New (a Delete) on pool p that has returned.
IsNew(p) == last'.op = "New" /\ last'.pool = p
IsDelete(p) == last'.op = "Delete" /\ last'.pool = p

\* The New that has just returned asked the host for a slab and got none.
HostFailed == last'.host_calls > 0 /\ last'.ret = NULL

\* New finds no free block, no room in the active slab, and the limit reached.
Exhausted(P) ==
    /\ is_empty(P.free_list_)
    /\ is_empty(P.slab_list_) \/ front(P.slab_list_).alloc_count_ >= AllocsPerSlab
    /\ ~(P.slab_count_ < P.max_slabs_)

----------------------------------------------------------------------------
\* C1. Exhaustion threshold: unless the host fails it, a New returns a block
\* while fewer than max_slabs * AllocsPerSlab objects of the pool are live and
\* returns nullptr once that many are (so max_slabs * AllocsPerSlab News
\* without a release succeed and the next one fails); and the New right after
\* a release returns a block.
ExhaustionThreshold ==
    [][\A p \in Pools :
         /\ (IsNew(p) /\ ~HostFailed) =>
               /\ LiveCount(p) < Capacity(p) => last'.ret # NULL
               /\ LiveCount(p) = Capacity(p) => last'.ret = NULL
               /\ LiveCount(p) <= Capacity(p)
         /\ (IsNew(p) /\ last.op = "Delete" /\ last.pool = p) => last'.ret # NULL
      ]_vars

\* max_slabs * AllocsPerSlab blocks carved one after the other, none released
\* (free_list_size_ = 0 on a pool that was not pre-allocated), and the next
\* New has returned nullptr without the host having been asked.
ExhaustionThresholdWitness ==
    \E p \in Pools :
        /\ last.op = "New" /\ last.pool = p /\ last.ret = NULL
        /\ last.host_calls = 0
        /\ ~hist[p].alloc_initial
        /\ pools[p].free_list_size_ = 0
        /\ LiveCount(p) = Capacity(p)
        /\ pools[p].max_slabs_ = MaxSlabsArg

\* C2. Conservation: live blocks plus free-list blocks are the blocks carved.
Conservation ==
    \A p \in Pools : Alive(p) =>
        LiveCount(p) + Len(pools[p].free_list_) = SumAllocCount(pools[p].slab_list_)

ConservationWitness ==
    \E p \in Pools :
        /\ Alive(p)
        /\ LiveCount(p) >= 2
        /\ Len(pools[p].free_list_) >= 2
        /\ pools[p].slab_count_ >= 2

\* C3. No aliasing: no block a caller holds is on a free list.
NoAliasing ==
    \A p \in Pools : LiveCells \cap Range(pools[p].free_list_) = {}

NoAliasingWitness ==
    \E p \in Pools :
        /\ last.op = "New" /\ last.pool = p /\ last.ret # NULL
        /\ LiveCount(p) >= 1
        /\ Len(pools[p].free_list_) >= 1
        /\ SumAllocCount(pools[p].slab_list_) > LiveCount(p) + 1

\* C4. Each block is handed to one caller: the blocks of the live objects and
\* the blocks Allocate has returned to a New still running are pairwise
\* distinct, whatever the interleaving.
Returned(t) == pc[t] \in {"New_check", "New_construct"} /\ frame[t].mem # NULL

OneCallerPerCell ==
    /\ \A o \in BagToSet(objs) :
          /\ CopiesIn(o, objs) = 1
          /\ \A o2 \in BagToSet(objs) : o2.mem = o.mem => o2 = o
    /\ \A t \in Threads : Returned(t) =>
          /\ frame[t].mem \notin LiveCells
          /\ \A u \in Threads \ {t} : Returned(u) => frame[u].mem # frame[t].mem

OneCallerPerCellWitness ==
    \E t, u \in Threads :
        /\ t # u
        /\ Returned(t) /\ Returned(u)
        /\ Self(t) = Self(u)
        /\ frame[t].mem.slab = frame[u].mem.slab
        /\ pc[t] = "New_construct" /\ pc[u] = "New_construct"

\* C5. Acquire order: a New takes the head of a non-empty free list and leaves
\* the slabs alone; it carves only when the free list is empty, and then from
\* the front slab; it asks the host only when the free list is empty, there is
\* no slab or the front slab is full, and slab_count_ < max_slabs_; in every
\* other case it returns nullptr.
AcquireOrder ==
    [][\A p \in Pools : IsNew(p) =>
         LET P == pools[p]
             Q == pools'[p]
             NoRoom == is_empty(P.slab_list_)
                         \/ front(P.slab_list_).alloc_count_ >= AllocsPerSlab
         IN /\ ~is_empty(P.free_list_) =>
                  /\ last'.ret = front(P.free_list_)
                  /\ Q.free_list_ = pop_front(P.free_list_)
                  /\ Q.slab_count_ = P.slab_count_
                  /\ Q.slab_list_ = P.slab_list_
                  /\ last'.host_calls = 0
            /\ (is_empty(P.free_list_) /\ ~NoRoom) =>
                  /\ last'.ret = [slab |-> front(P.slab_list_).id,
                                  idx |-> front(P.slab_list_).alloc_count_]
                  /\ Q.slab_count_ = P.slab_count_
                  /\ last'.host_calls = 0
            /\ Q.slab_list_ # P.slab_list_ => is_empty(P.free_list_)
            /\ (Q.slab_list_ # P.slab_list_ /\ Q.slab_count_ = P.slab_count_) =>
                  /\ ~NoRoom
                  /\ pop_front(Q.slab_list_) = pop_front(P.slab_list_)
            /\ (last'.host_calls > 0 \/ Q.slab_count_ # P.slab_count_) =>
                  /\ is_empty(P.free_list_)
                  /\ NoRoom
                  /\ P.slab_count_ < P.max_slabs_
            /\ (is_empty(P.free_list_) /\ NoRoom
                  /\ ~(P.slab_count_ < P.max_slabs_)) => last'.ret = NULL
      ]_vars

AcquireOrderWitness ==
    \E p \in Pools :
        /\ last.op = "New" /\ last.pool = p
        /\ last.host_calls > 0
        /\ last.ret # NULL
        /\ pools[p].slab_count_ >= 2
        /\ pools[p].free_list_size_ = 0

\* C6. LIFO reuse: the New right after a release on the same pool returns the
\* block just released; a release links its block at the head of the free
\* list and a New served from the free list takes the head and leaves the
\* rest in order.
LifoReuse ==
    [][\A p \in Pools :
         /\ (IsNew(p) /\ last.op = "Delete" /\ last.pool = p) =>
               last'.ret = last.ret
         /\ (IsNew(p) /\ ~is_empty(pools[p].free_list_)) =>
               /\ last'.ret = Head(pools[p].free_list_)
               /\ pools'[p].free_list_ = Tail(pools[p].free_list_)
         /\ IsDelete(p) =>
               pools'[p].free_list_ = <<last'.ret>> \o pools[p].free_list_
      ]_vars

\* A block that is neither the first nor the last one carved comes back.
LifoReuseWitness ==
    \E p \in Pools :
        /\ last.op = "New" /\ last.pool = p
        /\ last.ret.idx = 1
        /\ pools[p].slab_count_ = 2
        /\ last.ret.slab # front(pools[p].slab_list_).id
        /\ LiveCount(p) = Capacity(p)

\* C7. Memory bound: slab_count_ <= max_slabs_; the slabs of a pool are
\* slab_count_ distinct regions the host has handed out, at most max_slabs_ of
\* them, and at most max_slabs * AllocsPerSlab blocks have been carved.
MemoryBound ==
    \A p \in Pools :
        /\ pools[p].slab_count_ <= pools[p].max_slabs_
        /\ Len(pools[p].slab_list_) <= pools[p].max_slabs_
        /\ Alive(p) => Len(pools[p].slab_list_) = pools[p].slab_count_
        /\ SumAllocCount(pools[p].slab_list_) <= Capacity(p)
        /\ Cardinality(SlabIds(pools[p])) = Len(pools[p].slab_list_)
        /\ SlabIds(pools[p]) \subseteq heap

MemoryBoundWitness ==
    \E p \in Pools :
        /\ Alive(p)
        /\ pools[p].slab_count_ = MaxSlabsArg
        /\ SumAllocCount(pools[p].slab_list_) = MaxSlabsArg * AllocsPerSlab
        /\ last.op = "New" /\ last.ret = NULL

\* C8. Exhaustion has no side effect: a New that returns nullptr without
\* having asked the host found the free list empty, the active slab full and
\* the limit reached, and leaves the pool, the host and the objects as they were.
ExhaustionNoSideEffect ==
    [][\A p \in Pools :
         (IsNew(p) /\ last'.ret = NULL /\ last'.host_calls = 0) =>
             /\ Exhausted(pools[p])
             /\ pools' = pools
             /\ heap' = heap
             /\ objs' = objs
      ]_vars

ExhaustionNoSideEffectWitness ==
    \E p \in Pools :
        /\ last.op = "New" /\ last.pool = p
        /\ last.ret = NULL /\ last.host_calls = 0
        /\ Exhausted(pools[p])
        /\ pools[p].max_slabs_ >= 1
        /\ pools[p].free_list_size_ = 0

\* C9. Destructor routing: every live object's slab_origin_ is the pool whose
\* New constructed it and whose slab holds its block; deleting it links the
\* block at the head of that pool's free list and changes no other pool.
Deleted == {o \in BagToSet(objs) : CopiesIn(o, objs') < CopiesIn(o, objs)}

DestructorRouting ==
    /\ [](\A o \in BagToSet(objs) :
            /\ o.slab_origin_ = o.made_by
            /\ ~panicked => o.mem.slab \in SlabIds(pools[o.made_by]))
    /\ [][last'.op = "Delete" =>
            \A o \in Deleted :
                /\ pools'[o.made_by].free_list_ =
                       <<o.mem>> \o pools[o.made_by].free_list_
                /\ \A q \in Pools \ {o.made_by} : pools'[q] = pools[q]
                /\ heap' = heap
         ]_vars

\* Two pools, neither pre-allocated, each with a block of its own on its free
\* list while the other has live objects.
DestructorRoutingWitness ==
    \E p, q \in Pools :
        /\ p # q
        /\ Alive(p) /\ Alive(q)
        /\ ~hist[p].alloc_initial /\ ~hist[q].alloc_initial
        /\ last.op = "Delete" /\ last.pool = q
        /\ pools[p].free_list_ # <<>>
        /\ Range(pools[p].free_list_) \subseteq
              {[slab |-> i, idx |-> k] : i \in SlabIds(pools[p]), k \in 0..(AllocsPerSlab - 1)}
        /\ front(pools[q].free_list_) = last.ret
        /\ LiveCount(p) >= 1 /\ LiveCount(q) >= 1

----------------------------------------------------------------------------
\* SpecMT: where a thread holds the lock, and where it runs code that is not
\* the allocator's.

\* Thread t is inside the scope of an AutoLock on some pool.
HoldsLock(t) == \E p \in Pools : pools[p].alloc_lock_ = t

\* The statements between the AutoLock and the end of its scope.
LockScope ==
    {"Allocate_free", "Allocate_pop", "Allocate_unlink", "Allocate_slab",
     "Allocate_grow", "Allocate_unlock", "Return_push", "Return_unlock"}

\* The statements at which a thread calls out of the allocator: ObjType's
\* constructor, ObjType's destructor (a `delete` of a caller that is idle),
\* and aligned_alloc.
ConstructorSite == "New_construct"
DestructorSite == "idle"
HostCallSite == "Allocate_grow"
ExternalCallSites == {ConstructorSite, DestructorSite, HostCallSite}

\* C11: a thread holds the pool's lock exactly inside the AutoLock scopes of
\* Allocate and ReturnToFreeList; at the constructor call of New and at the
\* destructor call of `delete` it holds no lock, it holds none either when
\* operator delete enters ReturnToFreeList (the destructor has finished), and
\* of the calls out of the allocator only aligned_alloc is made with the lock
\* held.
LockNotHeldInUserCode ==
    \A t \in Threads :
        /\ HoldsLock(t) <=> pc[t] \in LockScope
        /\ pc[t] \in {ConstructorSite, DestructorSite, "Return_entry"} => ~HoldsLock(t)
        /\ pc[t] \in ExternalCallSites /\ HoldsLock(t) => pc[t] = HostCallSite
        /\ pc[t] = HostCallSite => HoldsLock(t)

\* A thread is about to run the constructor, holding no lock, while another
\* thread is inside the lock scope of the same pool.
LockNotHeldInUserCodeWitness ==
    \E t, u \in Threads :
        /\ pc[t] = ConstructorSite /\ ~HoldsLock(t)
        /\ pc[u] \in LockScope /\ HoldsLock(u) /\ Self(u) = Self(t)

\* C12: the calls on one pool are linearizable. No two threads are inside
\* the lock scope of the same pool, and when a thread leaves the lock scope
\* the pool, the heap and the value the call returns are what the whole
\* Allocate (the whole ReturnToFreeList) makes of the pool and heap the
\* thread found when it took the lock: each call takes effect as one
\* sequential call between its lock and its unlock.
Linearizable ==
    /\ \A t, u \in Threads :
          t # u /\ pc[t] \in LockScope /\ pc[u] \in LockScope => Self(t) # Self(u)
    /\ \A t \in Threads :
          /\ pc[t] = "Allocate_unlock" =>
                \E ok \in BOOLEAN :
                    LET r == Allocate(snap[t].pool, snap[t].heap, ok)
                    IN /\ pools[Self(t)] = r.pool
                       /\ heap = r.heap
                       /\ frame[t].mem = r.mem
          /\ pc[t] = "Return_unlock" =>
                /\ pools[Self(t)] = ReturnToFreeList(snap[t].pool, frame[t].ptr)
                /\ heap = snap[t].heap
          /\ pc[t] = "New_construct" => frame[t].mem # NULL

\* A New leaves the lock scope with a block while another thread's release
\* waits for the lock.
LinearizableWitness ==
    \E t, u \in Threads :
        /\ pc[t] = "Allocate_unlock" /\ frame[t].mem # NULL
        /\ pc[u] = "Return_lock"

----------------------------------------------------------------------------
\* C13 as stated: once every thread has made its K pairs and is joined, the
\* free list is N * K long and no address was returned by two acquires.
S6AllDistinct ==
    Joined =>
        \A p \in SoloPools :
            /\ Len(pools[p].free_list_) = NumThreads * PairsPerThread
            /\ ~work.again

\* C13, amended: no address is held by two threads at the same time, and once
\* every thread has made its K pairs and is joined no object is live and the
\* free list holds every address that was acquired once each: its length is
\* the number of distinct addresses acquired, the number of blocks carved,
\* and at most N.
S6Reuse ==
    /\ \A t, u \in Threads :
          t # u => work.of[t].held \cap work.of[u].held = {}
    /\ \A t \in Threads : work.of[t].held \subseteq LiveCells
    /\ Joined =>
          \A p \in SoloPools :
              /\ objs = EmptyBag
              /\ Range(pools[p].free_list_) = work.got
              /\ Len(pools[p].free_list_) = Cardinality(work.got)
              /\ Len(pools[p].free_list_) = SumAllocCount(pools[p].slab_list_)
              /\ Len(pools[p].free_list_) = pools[p].free_list_size_
              /\ Len(pools[p].free_list_) <= NumThreads

\* Every thread is joined, some acquire got an address an earlier acquire
\* had got, and the free list is as long as it can get.
S6ReuseWitness ==
    /\ Joined
    /\ work.again
    /\ \E p \in SoloPools : Len(pools[p].free_list_) = NumThreads

----------------------------------------------------------------------------
\* C14: whenever a pool is destroyed while an object dispensed from it is
\* still live, whatever New and delete calls came before, the destructor's
\* DEBUG_ASSERT(free_list_size_ == allocated_count) fails.
LeakDetected ==
    [][\A p \in Pools :
          last'.op = "Dtor" /\ last'.pool = p /\ LiveCount(p) > 0 => panicked']_vars

\* A pool was destroyed after some objects had been released and while
\* another was still live, and the assertion has failed.
LeakDetectedWitness ==
    /\ panicked
    /\ last.op = "Dtor"
    /\ pools[last.pool].free_list_size_ > 0
    /\ objs # EmptyBag

----------------------------------------------------------------------------
\* C15 as stated: unless a DEBUG_ASSERT has failed, no block is linked on a
\* free list twice.
DoubleFreeDetected ==
    ~panicked =>
        \A p \in Pools :
            Len(pools[p].free_list_) = Cardinality(Range(pools[p].free_list_))

----------------------------------------------------------------------------
\* The states of a block of a slab.

\* Every allocs_[idx] of every region a slab can lie in.
AllCells == {[slab |-> r, idx |-> i] : r \in Regions, i \in 0..(AllocsPerSlab - 1)}

\* The block has been carved: a slab lies at its region and its index is
\* below the slab's alloc_count_.
Carved(c) ==
    \E p \in Pools : \E i \in 1..Len(pools[p].slab_list_) :
        /\ pools[p].slab_list_[i].id = c.slab
        /\ c.idx < pools[p].slab_list_[i].alloc_count_

OnFreeList(c) == \E p \in Pools : c \in Range(pools[p].free_list_)

CellState(c) ==
    IF OnFreeList(c) THEN "free"
    ELSE IF c \in LiveCells THEN "live"
    ELSE "unused"

\* While no assertion has failed a carved block is live or free and not
\* both, and a block that is not carved is neither.
CellsPartitioned ==
    ~panicked =>
        \A c \in AllCells :
            /\ Carved(c) <=> (OnFreeList(c) \/ c \in LiveCells)
            /\ ~(OnFreeList(c) /\ c \in LiveCells)

\* unused -> live, live -> free, free -> live.
CellTransitions ==
    {<<"unused", "live">>, <<"live", "free">>, <<"free", "live">>}

\* The step is a constructor with alloc_initial, and c is the first block of
\* the slab the constructor has allocated.
IsPreAllocated(c) ==
    /\ last'.op = "Ctor"
    /\ hist'[last'.pool].alloc_initial
    /\ c.idx = 0
    /\ c.slab \in SlabIds(pools'[last'.pool])

\* C16 as stated: every step other than the destruction of a pool leaves
\* each block in its state or takes it unused -> live, live -> free or
\* free -> live.
CellStateMachineAsStated ==
    [][last'.op # "Dtor" =>
          \A c \in AllCells :
              \/ CellState(c)' = CellState(c)
              \/ <<CellState(c), CellState(c)'>> \in CellTransitions]_vars

\* C16, amended: every block is in exactly one of the three states, and
\* every step other than the destruction of a pool leaves each block in its
\* state or takes it unused -> live, live -> free or free -> live, except
\* that a constructor with alloc_initial takes the first block of its first
\* slab from unused to free without an object ever being in it; no block
\* returns to unused, and no region goes back to the host.
CellStateMachine ==
    [][last'.op # "Dtor" =>
          /\ CellsPartitioned'
          /\ heap \subseteq heap'
          /\ \A c \in AllCells :
                \/ CellState(c)' = CellState(c)
                \/ <<CellState(c), CellState(c)'>> \in CellTransitions
                \/ /\ <<CellState(c), CellState(c)'>> = <<"unused", "free">>
                   /\ IsPreAllocated(c)]_vars

\* The pre-allocated block went unused -> free in the constructor and is now
\* live, dispensed from the free list, while a block carved after it
\* (unused -> live) has been released (live -> free).
CellStateMachineWitness ==
    \E p \in Pools :
        /\ hist[p].alloc_initial
        /\ last.op = "New" /\ last.pool = p /\ last.ret.idx = 0
        /\ pools[p].free_list_size_ > 0
        /\ CellState(last.ret) = "live"
        /\ \E c \in AllCells : CellState(c) = "free" /\ c.idx > 0

----------------------------------------------------------------------------
\* C17: a New that calls aligned_alloc and gets no region returns nullptr and
\* changes nothing: no slab is added, slab_count_ and every other member of
\* every pool, the heap and the objects stay as they were, exactly as when
\* the limit is reached; the slab limit is not used up, so the pool may still
\* allocate that slab in a later New.
HostFailureIsExhaustion ==
    [][\A p \in Pools :
          IsNew(p) /\ last'.host_calls > 0 /\ heap' = heap =>
              /\ last'.ret = NULL
              /\ pools' = pools
              /\ objs' = objs
              /\ panicked' = panicked
              /\ MayAllocateSlab(pools'[p])
              /\ is_empty(pools'[p].free_list_)]_vars

\* A New has failed in aligned_alloc while growing beyond the first slab,
\* whose objects are all live.
HostFailureIsExhaustionWitness ==
    \E p \in Pools :
        /\ last.op = "New" /\ last.pool = p
        /\ last.host_calls > 0 /\ last.ret = NULL
        /\ pools[p].slab_count_ = 1
        /\ LiveCount(p) = AllocsPerSlab

----------------------------------------------------------------------------
\* C18 as stated: when the constructor has failed in New the block New had
\* acquired is on the free list, and no carved block is neither live nor
\* free.
ConstructorFailureReturnsCell ==
    /\ last.op = "NewThrows" => OnFreeList(last.ret)
    /\ \A c \in AllCells : Carved(c) => OnFreeList(c) \/ c \in LiveCells

----------------------------------------------------------------------------
\* C19: with RefPtr, an object is live exactly while some RefPtr points at
\* it. Destroying a RefPtr that is not the last one to its object changes
\* neither the pool nor the objects; destroying the last one pushes the
\* object's block on the head of its pool's free list, where it then is
\* exactly once; nothing else pushes a block; and the New that follows the
\* release returns that block.
SharedReference ==
    [][/\ BagToSet(ptrs') = BagToSet(objs')
       /\ \A o \in BagToSet(ptrs) :
             CopiesIn(o, ptrs') < CopiesIn(o, ptrs) =>
                 IF CopiesIn(o, ptrs) > 1
                 THEN pools' = pools /\ objs' = objs
                 ELSE /\ o \notin BagToSet(objs')
                      /\ pools' = [pools EXCEPT ![o.slab_origin_].free_list_ =
                                       <<o.mem>> \o @,
                                    ![o.slab_origin_].free_list_size_ = @ + 1]
                      /\ Cardinality({i \in 1..Len(pools'[o.slab_origin_].free_list_) :
                             pools'[o.slab_origin_].free_list_[i] = o.mem}) = 1
       /\ \A p \in Pools :
             last'.op # "Ctor" /\ Len(pools'[p].free_list_) > Len(pools[p].free_list_) =>
                 \E o \in BagToSet(ptrs) :
                     CopiesIn(o, ptrs) = 1 /\ CopiesIn(o, ptrs') = 0
       /\ \A p \in Pools :
             IsNew(p) /\ last.op = "Delete" /\ last.pool = p =>
                 last'.ret = last.ret]_vars

\* The last RefPtr to an object has just been destroyed and the object's
\* block heads the free list, while MaxRefs RefPtr instances (an original and
\* MaxRefs - 1 clones) point at another object, which is live.
SharedReferenceWitness ==
    /\ last.op = "Delete"
    /\ front(pools[last.pool].free_list_) = last.ret
    /\ \E o \in BagToSet(objs) : CopiesIn(o, ptrs) = MaxRefs

----------------------------------------------------------------------------
\* C20: a New calls the host allocator only when the free list is empty and
\* every block of every slab of the pool is live; a New that finds a block on
\* the free list returns a block, takes exactly one block off the free list
\* and neither calls the host nor changes slab_count_ or the heap. So once
\* the objects of a full slab have been deleted, AllocsPerSlab calls of New
\* in a row succeed without growth.
ReuseBeforeGrowth ==
    [][\A p \in Pools :
          IsNew(p) =>
              /\ last'.host_calls > 0 =>
                    /\ is_empty(pools[p].free_list_)
                    /\ \A i \in 1..Len(pools[p].slab_list_) :
                          pools[p].slab_list_[i].alloc_count_ = AllocsPerSlab
                    /\ LiveCount(p) = pools[p].slab_count_ * AllocsPerSlab
              /\ ~is_empty(pools[p].free_list_) =>
                    /\ last'.ret # NULL
                    /\ last'.host_calls = 0
                    /\ Len(pools'[p].free_list_) = Len(pools[p].free_list_) - 1
                    /\ pools'[p].slab_count_ = pools[p].slab_count_
                    /\ pools'[p].slab_list_ = pools[p].slab_list_
                    /\ heap' = heap]_vars

\* In a pool built without alloc_initial that may still grow, every block of
\* the one slab is live again and the New that has just returned took block
\* 0 from the free list, without a call of the host.
ReuseBeforeGrowthWitness ==
    \E p \in Pools :
        /\ ~hist[p].alloc_initial
        /\ last.op = "New" /\ last.pool = p
        /\ last.ret.idx = 0 /\ last.host_calls = 0
        /\ pools[p].slab_count_ = 1 /\ pools[p].max_slabs_ > 1
        /\ LiveCount(p) = AllocsPerSlab
        /\ pools[p].free_list_size_ = 0

----------------------------------------------------------------------------
\* The objects of one flavor, by the slab order of their pool.
LiveRenamed(p) ==
    {Rename(pools[p], o.mem) : o \in {x \in BagToSet(objs) : x.made_by = p}}

\* The members of the two pools agree, slab for slab and block for block, and
\* so do the blocks their callers hold.
SameState ==
    /\ Normalise(pools[InstancedPool]) = Normalise(pools[StaticPool])
    /\ LiveRenamed(InstancedPool) = LiveRenamed(StaticPool)

\* C21: run call for call on an instanced and on the static pool with the
\* same constructor arguments, every New returns nullptr on both or the same
\* block (by slab order) on both, after every call the two pools have the
\* same slab list, counts and free list, and the objects differ only in that
\* the instanced ones carry their pool in slab_origin_.
FlavorsAgree ==
    [][/\ SameState'
       /\ LiveRenamed(InstancedPool)' \ LiveRenamed(InstancedPool)
             = LiveRenamed(StaticPool)' \ LiveRenamed(StaticPool)
       /\ \A o \in BagToSet(objs') :
             o.slab_origin_ = IF o.made_by = StaticPool THEN 0 ELSE InstancedPool]_vars

\* Both pools have grown to a second slab and hold objects, a delete has put
\* a block on both free lists, and the New after it has returned a block.
FlavorsAgreeWitness ==
    /\ pools[StaticPool].slab_count_ = 2
    /\ pools[InstancedPool].slab_count_ = 2
    /\ Len(pools[StaticPool].free_list_) > 0
    /\ LiveRenamed(StaticPool) # {}
    /\ last.op = "New" /\ last.ret # NULL /\ last.host_calls = 0

----------------------------------------------------------------------------
\* The state the pre-allocation aims at: one slab with one block carved,
\* that block alone on the free list, nothing live.
PreAllocated(p) ==
    /\ pools[p].slab_count_ = 1
    /\ Len(pools[p].slab_list_) = 1
    /\ front(pools[p].slab_list_).alloc_count_ = 1
    /\ pools[p].free_list_ = <<[slab |-> front(pools[p].slab_list_).id, idx |-> 0]>>
    /\ pools[p].free_list_size_ = 1
    /\ LiveCount(p) = 0

----------------------------------------------------------------------------
\* The statements that read or write free_list_, slab_list_, slab_count_,
\* free_list_size_ or a slab's alloc_count_.
SharedAccessSites ==
    {"Allocate_free", "Allocate_pop", "Allocate_unlink", "Allocate_slab",
     "Allocate_grow", "Return_push"}

\* The statement that constructs the FreeListEntry in the released block.
NodeWriteSite == "Return_entry"

\* The members of a pool other than the mutex.
Data(P) == [P EXCEPT !.alloc_lock_ = NoThread]

\* Nobody but thread t can reach block c: it is no object's, it is on no free
\* list and no other thread has it in a call.
OwnedBy(t, c) ==
    /\ c \notin LiveCells
    /\ ~OnFreeList(c)
    /\ \A u \in Threads \ {t} : frame[u].ptr # c /\ frame[u].mem # c

\* C23 as stated: a thread is inside the lock scope at every statement that
\* touches the pool's members and at the statement that writes the free-list
\* node into the released block.
LockHeldAtEveryAccess ==
    \A t \in Threads :
        pc[t] \in SharedAccessSites \cup {NodeWriteSite} => HoldsLock(t)

\* C23, amended: a thread holds the lock at every statement that touches
\* free_list_, slab_list_, slab_count_, free_list_size_ or an alloc_count_,
\* and while a pool is in use its members change only in steps of the thread
\* that holds its lock; the FreeListEntry is constructed in the released
\* block before the lock is taken, when the block belongs to the releasing
\* thread alone.
LockDiscipline ==
    [][/\ \A t \in Threads :
             /\ pc'[t] \in SharedAccessSites => HoldsLock(t)'
             /\ pc'[t] = NodeWriteSite =>
                   ~HoldsLock(t)' /\ OwnedBy(t, frame[t].ptr)'
       /\ \A p \in Pools :
             Alive(p) /\ Alive(p)' /\ Data(pools'[p]) # Data(pools[p]) =>
                 /\ pools[p].alloc_lock_ \in Threads
                 /\ pc[pools[p].alloc_lock_] # pc'[pools[p].alloc_lock_]]_vars

\* A thread is about to construct the FreeListEntry in the block it
\* releases while another thread holds the lock and is about to push its
\* own block.
LockDisciplineWitness ==
    \E t, u \in Threads :
        /\ pc[t] = NodeWriteSite /\ ~HoldsLock(t)
        /\ pc[u] = "Return_push" /\ HoldsLock(u)
        /\ Self(t) = Self(u)

----------------------------------------------------------------------------
\* C24: with every object deleted at most once, the entries of a free list
\* are pairwise distinct blocks (the list, followed from its head, never
\* comes back to an entry), each a carved block that no object is in.
FreeListDistinct ==
    \A p \in Pools :
        /\ \A i, j \in 1..Len(pools[p].free_list_) :
              i # j => pools[p].free_list_[i] # pools[p].free_list_[j]
        /\ \A i \in 1..Len(pools[p].free_list_) :
              /\ pools[p].free_list_[i] # NULL
              /\ Carved(pools[p].free_list_[i])
              /\ pools[p].free_list_[i] \notin LiveCells

\* A free list of at least three blocks out of two slabs, some of which has
\* been dispensed again.
FreeListDistinctWitness ==
    \E p \in Pools :
        /\ Len(pools[p].free_list_) >= 3
        /\ Cardinality({pools[p].free_list_[i].slab :
                            i \in 1..Len(pools[p].free_list_)}) = 2
        /\ Len(pools[p].free_list_) < SumAllocCount(pools[p].slab_list_)

----------------------------------------------------------------------------
\* alloc_count_ of the slab at region id in P, or 0 when P has no slab there.
AllocCountOf(P, id) ==
    IF id \in SlabIds(P)
    THEN (CHOOSE s \in Range(P.slab_list_) : s.id = id).alloc_count_
    ELSE 0

\* Slab::Allocate on slab s does what carve is to do: on a full slab nullptr
\* and no change, else allocs_[alloc_count_] and alloc_count_ one up.
CarvesInOrder(s) ==
    LET r == SlabAllocate(s)
    IN IF s.alloc_count_ = AllocsPerSlab
       THEN r.mem = NULL /\ r.slab = s
       ELSE /\ r.mem = [slab |-> s.id, idx |-> s.alloc_count_]
            /\ r.slab = [s EXCEPT !.alloc_count_ = @ + 1]

\* C25: every slab has 0 <= alloc_count_ <= AllocsPerSlab; while the pool
\* exists no step lowers an alloc_count_ and a delete changes none; a New
\* raises at most one alloc_count_, by one, and then returns the block whose
\* index is the old count, so blocks leave a slab in index order, each once;
\* and Slab::Allocate on a full slab returns nullptr and changes nothing.
SlabBumpIndex ==
    [][\A p \in Pools :
          /\ \A s \in Range(pools'[p].slab_list_) :
                /\ 0 <= s.alloc_count_ /\ s.alloc_count_ <= AllocsPerSlab
                /\ CarvesInOrder(s)
          /\ Alive(p) /\ Alive(p)' =>
                /\ \A id \in Regions :
                      /\ AllocCountOf(pools'[p], id) >= AllocCountOf(pools[p], id)
                      /\ AllocCountOf(pools'[p], id) <= AllocCountOf(pools[p], id) + 1
                      /\ AllocCountOf(pools'[p], id) > AllocCountOf(pools[p], id) =>
                            /\ last'.op = "New" /\ last'.pool = p
                            /\ last'.ret = [slab |-> id,
                                            idx |-> AllocCountOf(pools[p], id)]
                /\ Cardinality({id \in Regions :
                       AllocCountOf(pools'[p], id) # AllocCountOf(pools[p], id)}) <= 1
          /\ IsDelete(p) => pools'[p].slab_list_ = pools[p].slab_list_]_vars

\* Every block of both slabs of a pool has been carved, and the delete that
\* has just returned has left both slabs full.
SlabBumpIndexWitness ==
    \E p \in Pools :
        /\ pools[p].slab_count_ = 2
        /\ \A s \in Range(pools[p].slab_list_) : s.alloc_count_ = AllocsPerSlab
        /\ last.op = "Delete" /\ last.pool = p
        /\ pools[p].free_list_size_ = 1
        /\ LiveCount(p) = 2 * AllocsPerSlab - 1

----------------------------------------------------------------------------
\* New finds no block on the free list and none left in the active slab (or
\* no slab), and may still allocate a slab.
AtSlabBoundary(P) ==
    /\ is_empty(P.free_list_)
    /\ is_empty(P.slab_list_) \/ front(P.slab_list_).alloc_count_ >= AllocsPerSlab
    /\ MayAllocateSlab(P)

\* C26: a New at the slab boundary calls the host once; when the host has
\* no region the call returns nullptr and changes nothing, otherwise exactly
\* one slab is created at the region the host returned, it is the new front
\* of the slab list with the older slabs behind it unchanged, slab_count_ is
\* one up, and the call returns block 0 of the new slab. With max_slabs = 2
\* the New made with AllocsPerSlab objects live and nothing free returns a
\* block of a second slab, and the New made with 2 * AllocsPerSlab objects
\* live returns nullptr.
SlabBoundary ==
    [][\A p \in Pools :
          /\ IsNew(p) /\ AtSlabBoundary(pools[p]) =>
                /\ last'.host_calls = 1
                /\ \/ last'.ret = NULL /\ pools' = pools /\ heap' = heap
                   \/ /\ Cardinality(heap' \ heap) = 1
                      /\ heap \subseteq heap'
                      /\ Len(pools'[p].slab_list_) = Len(pools[p].slab_list_) + 1
                      /\ pop_front(pools'[p].slab_list_) = pools[p].slab_list_
                      /\ front(pools'[p].slab_list_).id \in heap' \ heap
                      /\ front(pools'[p].slab_list_).alloc_count_ = 1
                      /\ pools'[p].slab_count_ = pools[p].slab_count_ + 1
                      /\ last'.ret = [slab |-> front(pools'[p].slab_list_).id,
                                      idx |-> 0]
          /\ IsNew(p) /\ ~AtSlabBoundary(pools[p]) =>
                /\ heap' = heap
                /\ pools'[p].slab_count_ = pools[p].slab_count_
          /\ /\ IsNew(p) /\ pools[p].max_slabs_ = 2
             /\ LiveCount(p) = AllocsPerSlab /\ is_empty(pools[p].free_list_)
             /\ last'.ret # NULL
             => /\ last'.ret.slab \notin SlabIds(pools[p])
                /\ pools[p].slab_count_ = 1 /\ pools'[p].slab_count_ = 2
          /\ /\ IsNew(p) /\ pools[p].max_slabs_ = 2
             /\ LiveCount(p) = 2 * AllocsPerSlab
             => last'.ret = NULL /\ last'.host_calls = 0]_vars

\* With max_slabs = 2, the New made with AllocsPerSlab objects live has
\* called the host and returned block 0 of the second slab, now the front.
SlabBoundaryWitness ==
    \E p \in Pools :
        /\ pools[p].max_slabs_ = 2 /\ pools[p].slab_count_ = 2
        /\ LiveCount(p) = AllocsPerSlab + 1
        /\ pools[p].free_list_size_ = 0
        /\ last.op = "New" /\ last.pool = p /\ last.host_calls = 1
        /\ last.ret = [slab |-> front(pools[p].slab_list_).id, idx |-> 0]

----------------------------------------------------------------------------
\* This step is the destruction of pool p.
IsDtor(p) == last'.op = "Dtor" /\ last'.pool = p

\* C27: a New or a Delete frees no region and removes no slab: the heap and
\* the pool's slabs only grow and slab_count_ does not decrease, also when
\* every block of a slab is on the free list. The destruction of a pool
\* frees each of its slabs, all distinct regions the pool held until then,
\* and nothing else, leaves slab_list_ and free_list_ empty, and its
\* assertion compares free_list_size_ with the sum of the slabs'
\* alloc_count_.
SlabLifetime ==
    [][\A p \in Pools :
          /\ IsNew(p) \/ IsDelete(p) =>
                /\ heap \subseteq heap'
                /\ SlabIds(pools[p]) \subseteq SlabIds(pools'[p])
                /\ pools'[p].slab_count_ >= pools[p].slab_count_
                /\ Alive(p)'
          /\ IsDtor(p) =>
                /\ SlabIds(pools[p]) \subseteq heap
                /\ Cardinality(SlabIds(pools[p])) = Len(pools[p].slab_list_)
                /\ heap' = heap \ SlabIds(pools[p])
                /\ is_empty(pools'[p].slab_list_)
                /\ is_empty(pools'[p].free_list_)
                /\ panicked' = (pools[p].free_list_size_ #
                                   SumAllocCount(pools[p].slab_list_))]_vars

\* A pool that had grown to two slabs was destroyed with nothing live: both
\* regions are back with the host and the lists are empty.
SlabLifetimeWitness ==
    \E p \in Pools :
        /\ last.op = "Dtor" /\ last.pool = p /\ ~panicked
        /\ pools[p].slab_count_ = 2
        /\ is_empty(pools[p].slab_list_) /\ is_empty(pools[p].free_list_)
        /\ pools[p].free_list_size_ = 2 * AllocsPerSlab
        /\ heap = {}

----------------------------------------------------------------------------
\* C28: in every state of a pool that exists, every slab behind the front
\* of slab_list_ has alloc_count_ = AllocsPerSlab, and when slab_count_ >= 1
\* the sum of alloc_count_ over the slabs is
\* (slab_count_ - 1) * AllocsPerSlab plus the front slab's alloc_count_.
NoAbandonedCapacity ==
    \A p \in Pools :
        Alive(p) =>
            LET slabs == pools[p].slab_list_
            IN /\ \A i \in 2..Len(slabs) : slabs[i].alloc_count_ = AllocsPerSlab
               /\ pools[p].slab_count_ >= 1 =>
                     /\ ~is_empty(slabs)
                     /\ SumAllocCount(slabs) =
                           (pools[p].slab_count_ - 1) * AllocsPerSlab
                              + front(slabs).alloc_count_

\* A second slab has just been pushed: one block of it is allocated and the
\* slab behind it is full.
NoAbandonedCapacityWitness ==
    \E p \in Pools :
        /\ Alive(p)
        /\ pools[p].slab_count_ = 2
        /\ Len(pools[p].slab_list_) = 2
        /\ front(pools[p].slab_list_).alloc_count_ = 1
        /\ pools[p].slab_list_[2].alloc_count_ = AllocsPerSlab
        /\ SumAllocCount(pools[p].slab_list_) = AllocsPerSlab + 1

----------------------------------------------------------------------------
\* C29: a delete links the released block at the head of free_list_ with the
\* older entries behind it in their order, adds one to free_list_size_,
\* leaves slab_list_ (the slabs, their order and their alloc_count_),
\* slab_count_ and max_slabs_ as they were, does not fail, and neither asks
\* the host for a region nor frees one.
ReleaseFrame ==
    [][\A p \in Pools :
          IsDelete(p) =>
              /\ pools'[p].free_list_ = <<last'.ret>> \o pools[p].free_list_
              /\ pools'[p].free_list_size_ = pools[p].free_list_size_ + 1
              /\ pools'[p].slab_list_ = pools[p].slab_list_
              /\ pools'[p].slab_count_ = pools[p].slab_count_
              /\ pools'[p].max_slabs_ = pools[p].max_slabs_
              /\ Alive(p) /\ Alive(p)'
              /\ ~panicked'
              /\ last'.host_calls = 0
              /\ heap' = heap]_vars

\* A block of a pool of two slabs was released onto a free list that held
\* another block already: it is at the head, and both slabs are as carved.
ReleaseFrameWitness ==
    \E p \in Pools :
        /\ last.op = "Delete" /\ last.pool = p /\ ~panicked
        /\ Len(pools[p].free_list_) = 2
        /\ front(pools[p].free_list_) = last.ret
        /\ pools[p].free_list_size_ = 2
        /\ pools[p].slab_count_ = 2
        /\ SumAllocCount(pools[p].slab_list_) = 2 * AllocsPerSlab

----------------------------------------------------------------------------
\* SpecFair: the statements of SpecMT on several pools that live as long as
\* the threads, with an ObjType whose constructor may call New once, every
\* thread scheduled fairly and the mutex handed to every thread that keeps
\* asking for it. Callers allocate from the first pool, constructors from any.

\* The callers' pool and another pool.
FairPools == {1, 2}

\* The thread is in no call of the allocator and in no constructor.
AtRest(t) == pc[t] = "idle" /\ outer[t] = NoFrame

\* New: new (mem) ObjType(...) runs the constructor, which calls New on pool
\* q. The frame of the outer New waits in outer[t].
CtorCallsNew(t, q) ==
    /\ ~panicked
    /\ pc[t] = "New_construct"
    /\ outer[t] = NoFrame
    /\ pools[q].lifetime = "alive"
    /\ outer' = [outer EXCEPT ![t] = frame[t]]
    /\ frame' = [frame EXCEPT ![t] = [NoFrame EXCEPT !.self = q]]
    /\ Goto(t, "Allocate_lock")
    /\ UNCHANGED <<pools, heap, objs, panicked, hist, last>>

\* The New the constructor called has returned (pc[t] is "idle" again), the
\* constructor returns, and the outer New does SetOrigin and CreatePtr.
CtorReturns(t) ==
    /\ pc[t] = "idle"
    /\ outer[t] # NoFrame
    /\ objs' = objs (+) SetToBag({NewObject(outer[t].mem, outer[t].self)})
    /\ outer' = [outer EXCEPT ![t] = NoFrame]
    /\ UNCHANGED <<pools, heap, panicked, hist, last, pc, frame>>

\* The statements of thread t that wait for nothing.
Run(t) ==
    \/ AllocTestFree(t) /\ UNCHANGED aux
    \/ AllocPopRead(t) /\ UNCHANGED aux
    \/ AllocPopUnlink(t) /\ UNCHANGED aux
    \/ AllocSlab(t) /\ UNCHANGED aux
    \/ \E ok \in BOOLEAN : AllocGrow(t, ok) /\ UNCHANGED aux
    \/ AllocUnlock(t) /\ UNCHANGED aux
    \/ NewCheck(t) /\ UNCHANGED aux
    \/ NewConstruct(t) /\ UNCHANGED aux
    \/ CtorReturns(t) /\ UNCHANGED <<snap, work, ref_count_, ptrs>>
    \/ ReturnEntry(t) /\ UNCHANGED aux
    \/ ReturnPush(t) /\ UNCHANGED aux
    \/ ReturnUnlock(t) /\ UNCHANGED aux

\* The statements of thread t that wait for alloc_lock_.
Acquire(t) ==
    \/ AllocLock(t) /\ UNCHANGED aux
    \/ ReturnLock(t) /\ UNCHANGED aux

NextFair ==
    \/ \E p \in FairPools : Ctor(p, ExampleMaxSlabs, FALSE, TRUE) /\ UNCHANGED aux
    \/ \E t \in Threads, p \in SoloPools :
          AtRest(t) /\ CallNew(t, p) /\ UNCHANGED aux
    \/ \E t \in Threads, o \in BagToSet(objs) :
          AtRest(t) /\ CallDelete(t, o) /\ UNCHANGED aux
    \/ \E t \in Threads, q \in FairPools :
          CtorCallsNew(t, q) /\ UNCHANGED <<snap, work, ref_count_, ptrs>>
    \/ \E t \in Threads : Run(t)
    \/ \E t \in Threads : Acquire(t)

\* Every thread that can run does, and a thread that asks for a mutex which
\* is free again and again gets it.
Fairness ==
    \A t \in Threads : WF_vars(Run(t)) /\ SF_vars(Acquire(t))

SpecFair == Init /\ [][NextFair]_vars /\ Fairness

\* The block the outer New of thread t is constructing in is with no one
\* else: not in the hands of the New the constructor called, not under an
\* object, not on the free list.
ConstructingAlone(t) ==
    LET p == outer[t].self
        c == outer[t].mem
    IN /\ frame[t].self = p => frame[t].mem # c
       /\ \A o \in BagToSet(objs) : ~(o.slab_origin_ = p /\ o.mem = c)
       /\ c \notin Range(pools[p].free_list_)
       /\ \A u \in Threads \ {t} :
             /\ frame[u].self = p => frame[u].mem # c /\ frame[u].ptr # c
             /\ outer[u].self = p => outer[u].mem # c

\* C30: under fair scheduling, with a host allocator that answers every
\* request, a thread that is in New or in operator delete, or in a
\* constructor that called New on the same or on another pool, is
\* eventually out of the call; and the block a constructor is running in
\* is never the one the New it called gets.
Progress ==
    /\ \A t \in Threads : ~AtRest(t) ~> AtRest(t)
    /\ [](\A t \in Threads : outer[t] # NoFrame => ConstructingAlone(t))

\* The constructor of thread t called New on the pool its own object is
\* allocated from, that New has returned another block of the pool, and a
\* second thread is inside a call on the same pool with the mutex.
ProgressWitness ==
    \E t, u \in Threads :
        /\ t # u
        /\ outer[t] # NoFrame /\ pc[t] = "idle"
        /\ \E o \in BagToSet(objs) :
              o.slab_origin_ = outer[t].self /\ o.mem # outer[t].mem
        /\ pc[u] # "idle" /\ frame[u].self = outer[t].self
        /\ pools[outer[t].self].alloc_lock_ = u

----------------------------------------------------------------------------
\* Pool p exists and was constructed with max_slabs = 0.
ZeroLimit(p) == Alive(p) /\ hist[p].max_slabs = 0

\* C31: a pool constructed with max_slabs = 0, with or without
\* alloc_initial, has no slab and nothing on its free list after the
\* constructor and after every later operation, no operation on it calls
\* the host or changes the host's regions, and every New on it returns
\* nullptr and constructs no object.
ZeroQuota ==
    [][\A p \in Pools :
          ZeroLimit(p)' /\ last'.pool = p =>
              /\ pools'[p].max_slabs_ = 0
              /\ last'.host_calls = 0
              /\ heap' = heap
              /\ is_empty(pools'[p].slab_list_)
              /\ is_empty(pools'[p].free_list_)
              /\ pools'[p].slab_count_ = 0
              /\ pools'[p].free_list_size_ = 0
              /\ last'.ret = NULL
              /\ objs' = objs
              /\ IsNew(p) => pools' = pools]_vars

\* A pool constructed with max_slabs = 0 and alloc_initial has just answered
\* a New with nullptr without a call of the host.
ZeroQuotaWitness ==
    \E p \in Pools :
        /\ ZeroLimit(p)
        /\ hist[p].alloc_initial
        /\ last.op = "New" /\ last.pool = p /\ last.ret = NULL
        /\ last.host_calls = 0
        /\ is_empty(pools[p].slab_list_) /\ is_empty(pools[p].free_list_)
        /\ heap = {}

----------------------------------------------------------------------------
\* Thread t executes the statement at label from in this step.
Executes(t, from) == pc[t] = from /\ pc'[t] # from

\* The blocks linked on the free list as thread t found it when it locked.
FoundFree(t) == Len(snap[t].pool.free_list_)

\* C32: in the debug build, whenever no thread is inside a critical section
\* of a pool that exists, free_list_size_ is the number of blocks linked on
\* free_list_. Statement by statement, the counter goes up by one exactly
\* in ReturnToFreeList's push and down by one exactly in Allocate's
\* free-list branch, and in no other statement, carving and slab allocation
\* included; so a release leaves its critical section with the counter one
\* above what it found, an Allocate served from the free list with one
\* below, and an Allocate that carved, allocated a slab or failed with the
\* counter as found.
DebugCounter ==
    /\ [](\A p \in Pools :
             Alive(p) /\ MutexFree(pools[p]) =>
                 pools[p].free_list_size_ = Len(pools[p].free_list_))
    /\ [][\A p \in Pools :
             Alive(p) /\ Alive(p)' =>
                LET size == pools[p].free_list_size_
                    size_after == pools'[p].free_list_size_
                IN /\ size_after \in {size - 1, size, size + 1}
                   /\ size_after = size + 1 <=>
                         \E t \in Threads : Self(t) = p /\ Executes(t, "Return_push")
                   /\ size_after = size - 1 <=>
                         \E t \in Threads :
                            /\ Self(t) = p /\ Executes(t, "Allocate_free")
                            /\ ~is_empty(pools[p].free_list_)
                   /\ \A t \in Threads :
                         /\ Self(t) = p /\ Executes(t, "Return_unlock") =>
                               size_after = snap[t].pool.free_list_size_ + 1
                         /\ Self(t) = p /\ Executes(t, "Allocate_unlock") =>
                               size_after = snap[t].pool.free_list_size_
                                   - (IF FoundFree(t) > 0 THEN 1 ELSE 0)]_vars

\* A thread found two blocks on the free list, was served the head, and is
\* about to leave Allocate: the counter is one and one block is linked.
DebugCounterWitness ==
    \E t \in Threads :
        /\ pc[t] = "Allocate_unlock"
        /\ Alive(Self(t))
        /\ FoundFree(t) = 2
        /\ snap[t].pool.free_list_size_ = 2
        /\ pools[Self(t)].free_list_size_ = 1
        /\ Len(pools[Self(t)].free_list_) = 1
        /\ frame[t].mem = front(snap[t].pool.free_list_)

====
